---------------------------- MODULE Spec2Model ----------------------------
(***************************************************************************)
(* Model of the Dune character engine of src/src/model/integer.mjs         *)
(* (the character module: duplicate checks, trait normalisation, the       *)
(* talent template engine and the domain predicates), of the equality      *)
(* library of src/src/model/equality.base.mjs and of the collection        *)
(* equalities of src/src/model/equality.mjs and src/model/setlike.mjs.     *)
(*                                                                         *)
(* JavaScript values are tagged records, so that "===" on primitives is    *)
(* equality of the records.  A call's outcome is a record that either      *)
(* returns a value or throws an error object.  Reading an identifier that  *)
(* no enclosing scope declares throws a ReferenceError, and calling a      *)
(* property that is not a function throws a TypeError, as the language     *)
(* defines; the module runs in strict mode and declares no such names.     *)
(***************************************************************************)
EXTENDS Integers, Sequences, FiniteSets, TLC

VARIABLES options, character, last, talentName, instantiator, made, input, answer

vars == <<options, character, last, talentName, instantiator, made, input, answer>>

(***************************************************************************)
(* Bounds of the model.                                                    *)
(***************************************************************************)
\* the largest number of sub-entities (traits + talents + assets) in the options
MaxMembers == 3
\* the largest count a trait of the options carries
MaxCount == 2
\* the largest number of tokens in a talent name pattern
MaxTokens == 3
\* the largest number of arguments handed to a talent template
MaxArgs == 3

(***************************************************************************)
(* JavaScript values.                                                      *)
(***************************************************************************)
Undefined == [t |-> "undefined"]

Null == [t |-> "null"]

Num(n) == [t |-> "number", v |-> n]

Bool(b) == [t |-> "boolean", v |-> b]

Str(s) == [t |-> "string", v |-> s]

\* an array; v is the sequence of its elements
Arr(s) == [t |-> "array", v |-> s]

\* a String wrapper object (new String(s))
StringObject(s) == [t |-> "String", v |-> s]

IsArray(x) == x.t = "array"

(***************************************************************************)
(* Outcomes of a call.                                                     *)
(***************************************************************************)
Return(x) == [status |-> "return", value |-> x]

Throw(e) == [status |-> "throw", error |-> e]

Returned(r) == r.status = "return"

Threw(r, class) == r.status = "throw" /\ r.error.class = class

ReferenceError(id) == [class |-> "ReferenceError", message |-> <<id, "is not defined">>]

TypeError(msg) == [class |-> "TypeError", message |-> msg]

RangeError(msg) == [class |-> "RangeError", message |-> msg]

AssertionError(msg) == [class |-> "AssertionError", message |-> msg]

(***************************************************************************)
(* The values the model draws its inputs from.                             *)
(***************************************************************************)
TraitNames == {"Thief", "Spy"}

TalentNames == {"Bold", "Subtle"}

AssetNames == {"Crysknife", "Shield"}

\* an optional boolean property: absent, true or false
Flags == {Undefined, Bool(TRUE), Bool(FALSE)}

Truthy(x) == x.t = "boolean" /\ x.v

\* a ?? b
Coalesce(a, b) == IF a.t \in {"undefined", "null"} THEN b ELSE a

Traits == [name : TraitNames, count : 1..MaxCount]

Talents == [name : TalentNames, unique : Flags]

BaseAsset ==
    [name |-> "Crysknife", quality |-> Num(0), types |-> Arr(<<"Melee">>),
     tanglible |-> Bool(TRUE), temporary |-> Bool(FALSE),
     reserved |-> Bool(FALSE), transferrable |-> Bool(TRUE)]

AssetFields == {"name", "quality", "types", "tanglible", "temporary", "reserved", "transferrable"}

AllAssets ==
    [name : AssetNames,
     quality : {Undefined, Num(0), Num(1)},
     types : {Undefined, Arr(<<>>), Arr(<<"Melee">>),
              Arr(<<"Melee", "Ranged">>), Arr(<<"Ranged", "Melee">>)},
     tanglible : Flags, temporary : Flags, reserved : Flags, transferrable : Flags]

\* the assets of the inputs: the base asset and every asset one property away from it
Assets == {a \in AllAssets : Cardinality({f \in AssetFields : a[f] # BaseAsset[f]}) <= 1}

\* the options objects handed to the constructor: at most MaxMembers sub-entities
OptionsSet ==
    UNION { [traits : [1..n[1] -> Traits], talents : [1..n[2] -> Talents],
             assets : [1..n[3] -> Assets], normalize : BOOLEAN] :
            n \in {m \in (0..MaxMembers) \X (0..MaxMembers) \X (0..MaxMembers) :
                      m[1] + m[2] + m[3] <= MaxMembers} }

Min(S) == CHOOSE x \in S : \A y \in S : x <= y

(***************************************************************************)
(* The function values the character module passes around, by name.       *)
(***************************************************************************)
\* (a) => ([a.unique ?? true, a.name])
talentIdentity(a) == <<Coalesce(a.unique, Bool(TRUE)), a.name>>

\* (id_a, id_b) => (id_a.length >= 2 && id_a.length === id_b.length
\*                  && (!(id_a[0] || id_b[0]) || (id_a[1] === id_b[1])))
talentIdentityEquality(id_a, id_b) ==
    /\ Len(id_a) >= 2
    /\ Len(id_a) = Len(id_b)
    /\ (~(Truthy(id_a[1]) \/ Truthy(id_b[1])) \/ id_a[2] = id_b[2])

\* equalArrays(a, b) with the default element equality (a === b)
equalArrays(a, b) ==
    /\ IsArray(a)
    /\ IsArray(b)
    /\ Len(a.v) = Len(b.v)
    /\ \A index \in 1..Len(a.v) : a.v[index] = b.v[index]

equalAssets(a, b) ==
    /\ a.name = b.name
    /\ a.quality = b.quality
    /\ equalArrays(a.types, b.types)
    /\ a.tanglible = b.tanglible
    /\ a.temporary = b.temporary

\* the identity functions handed to checkSubGroup
identityFnCall(identityFn, value) ==
    CASE identityFn = "(trait) => (trait.name)" -> value.name
      [] identityFn = "talentIdentity" -> talentIdentity(value)
      \* the default parameter ((a, b) => {}) returns undefined
      [] OTHER -> Undefined

\* the identity equality functions handed to checkSubGroup; undefined selects
\* the default parameter ((a, b) => (a === b))
equalityFnCall(equalityFn, a, b) ==
    CASE equalityFn = "talentIdentityEquality" -> talentIdentityEquality(a, b)
      [] equalityFn = "equalAssets" -> equalAssets(a, b)
      [] OTHER -> a = b

(***************************************************************************)
(* DuneCharacter.  A method is an operator from the receiver (and the      *)
(* arguments) to [outcome, this]: the call's outcome and the receiver      *)
(* after the call.                                                         *)
(***************************************************************************)
EmptyReport == [name \in {} |-> <<>>]

\* static checkDuplicity: the callback of findIndex reads idenitytFn, and the
\* statement after it reads wantInded; no scope declares either name.  The
\* callback runs only when the collection has an element.
checkDuplicity(collection, tested, identityFn, equalityFn, wantIndex) ==
    IF Len(collection) > 0
    THEN Throw(ReferenceError("idenitytFn"))
    ELSE Throw(ReferenceError("wantInded"))

\* result[tested.name].push(error), creating the list when the name is new
pushError(result, name, error) ==
    [n \in DOMAIN result \cup {name} |->
        IF n = name
        THEN Append(IF name \in DOMAIN result THEN result[name] ELSE <<>>, error)
        ELSE result[n]]

\* static checkSubGroup: reduce over the members; step[k] is the accumulator
\* after the callback has run on the first k members (testedIndex = k - 1),
\* or the error that ended the reduce.
checkSubGroup(subGroupName, subGroupMembers, newMember, identityFn, identityEqualityFn, throwError) ==
    LET step[k \in 0..Len(subGroupMembers)] ==
            IF k = 0 THEN Return(EmptyReport)
            ELSE IF ~Returned(step[k - 1]) THEN step[k - 1]
            ELSE
              LET result == step[k - 1].value
                  tested == subGroupMembers[k]
                  testedIndex == k - 1
                  found ==
                      IF newMember = Undefined
                      THEN checkDuplicity(SubSeq(subGroupMembers, 1, testedIndex), tested,
                                          identityFn, identityEqualityFn, TRUE)
                      ELSE checkDuplicity(<<tested>>, newMember,
                                          identityFn, identityEqualityFn, FALSE)
                  error ==
                      IF newMember = Undefined
                      THEN AssertionError(<<"Duplicate", subGroupName, "at", found.value,
                                            "and", testedIndex>>)
                      ELSE AssertionError(<<"Duplicate", subGroupName, "at", testedIndex>>)
                  hasError == newMember = Undefined \/ found.value
              IN  IF ~Returned(found) THEN found
                  ELSE IF ~hasError THEN Return(result)
                  ELSE IF throwError THEN Throw(error)
                  ELSE Return(pushError(result, tested.name, error))
    IN  step[Len(subGroupMembers)]

\* checkTraits calls checkSubGroup without the class: no scope declares the name
checkTraits(this, throwError) ==
    [outcome |-> Throw(ReferenceError("checkSubGroup")), this |-> this]

\* checkAssets reads assets (not this.assets) for the members: no scope declares it
checkAssets(this, throwError) ==
    [outcome |-> Throw(ReferenceError("assets")), this |-> this]

checkTalents(this, throwError) ==
    [outcome |-> checkSubGroup("talent", this.talents, Undefined, "talentIdentity",
                               "talentIdentityEquality", throwError),
     this |-> this]

\* check(failOnfirst = true): the first statement reads failOnFirst, which is
\* not the parameter (failOnfirst) and is declared nowhere
check(this, failOnfirst) ==
    [outcome |-> Throw(ReferenceError("failOnFirst")), this |-> this]

\* normaliseTraits: reduce with an initial value calls its callback once per
\* trait; the callback's first statement calls findIndex, which no scope
\* declares, so the assignment to this.traits happens only for an empty list.
normaliseTraits(this) ==
    IF Len(this.traits) = 0
    THEN [outcome |-> Return(Undefined), this |-> [this EXCEPT !.traits = <<>>]]
    ELSE [outcome |-> Throw(ReferenceError("findIndex")), this |-> this]

normalize(this) == normaliseTraits(this)

\* new DuneCharacter(options): value is the new object when the constructor returns
constructor(opts) ==
    LET this == [traits |-> opts.traits, talents |-> opts.talents, assets |-> opts.assets]
        call == IF opts.normalize THEN normalize(this) ELSE check(this, TRUE)
    IN  IF Returned(call.outcome) THEN Return(call.this) ELSE call.outcome

(***************************************************************************)
(* Talent templates.  A string that may hold placeholders is the sequence  *)
(* of its pieces: plain text, or one placeholder "[" name index "]" as     *)
(* capturingPlaceholderRegex matches it (index "" when the group did not   *)
(* take part).                                                             *)
(***************************************************************************)
Text(s) == [kind |-> "text", text |-> s]

Placeholder(name, index) == [kind |-> "placeholder", name |-> name, index |-> index]

PatternPieces ==
    {Text("Friend of "), Placeholder("Skill", ""), Placeholder("Drive", ""),
     Placeholder("Who", "1")}

\* the talent names handed to createTalentTemplate
TalentNamePatterns == UNION {[1..n -> PatternPieces] : n \in 1..MaxTokens}

\* an object that passes for a skill: {name, isSkill: true}
SkillObject(name) == [t |-> "object", v |-> name, isSkill |-> TRUE]

InstantiatorEntries ==
    {StringObject("Battle"), StringObject(""), Str("Battle"), SkillObject("Battle")}

\* the values handed to validInstantiator, createInstance and createTalent
Instantiators ==
    {Undefined, Str("Battle")} \cup
    {Arr(a) : a \in UNION {[1..n -> InstantiatorEntries] : n \in 0..MaxArgs}}

\* `${match.groups.name}${match.groups.index ?? ""}`
placeholderKey(match) == <<match.name, match.index>>

\* match.name, the switch value: the result of exec carries the captured
\* groups under match.groups, and has no property called name
matchName(match) == Undefined

\* the gatekeeper and replacement function pushed for a new placeholder.  The
\* cases of the switch call isDrive(value) and so on at construction, where no
\* scope declares value.
chooseGatekeeper(match) ==
    IF matchName(match) \in {Str("Drive"), Str("Talent"), Str("Trait"), Str("Asset"), Str("Skill")}
    THEN Throw(ReferenceError("value"))
    ELSE Return([gatekeeper |-> "(value) => (value instanceof String && value.length > 0)",
                 replacementFn |-> "(value) => (value)"])

\* createTalentTemplate(talentName): scan[k] is the state of the loop after the
\* first k pieces of the name
createTalentTemplate(name) ==
    LET start == [gatekeepers |-> <<>>, placeholderNames |-> <<>>,
                  replacementFunctions |-> <<>>, talentName |-> name]
        scan[k \in 0..Len(name)] ==
            IF k = 0 THEN Return(start)
            ELSE IF ~Returned(scan[k - 1]) THEN scan[k - 1]
            ELSE
              LET acc == scan[k - 1].value
                  match == name[k]
                  chosen == chooseGatekeeper(match)
              IN  IF match.kind # "placeholder" THEN Return(acc)
                  ELSE IF \E i \in 1..Len(acc.placeholderNames) :
                              acc.placeholderNames[i] = placeholderKey(match)
                  THEN Return(acc)
                  ELSE IF ~Returned(chosen) THEN chosen
                  ELSE Return([acc EXCEPT
                          !.placeholderNames = Append(@, placeholderKey(match)),
                          !.gatekeepers = Append(@, chosen.value.gatekeeper),
                          !.replacementFunctions = Append(@, chosen.value.replacementFn)])
    IN  scan[Len(name)]

\* gatekeepers[index](entry)
gatekeeperCall(gatekeeper, entry) == entry.t = "String" /\ entry.v # ""

validInstantiator(template, value) ==
    /\ IsArray(value)
    /\ \A index \in 0..(Len(value.v) - 1) :
          /\ index < Len(template.gatekeepers)
          /\ gatekeeperCall(template.gatekeepers[index + 1], value.v[index + 1])

\* the string conversion of an array of strings: its entries joined by ","
RECURSIVE arrayToString(_)
arrayToString(entries) ==
    IF Len(entries) = 0 THEN <<>>
    ELSE IF Len(entries) = 1 THEN <<Text(entries[1].v)>>
    ELSE <<Text(entries[1].v), Text(",")>> \o arrayToString(Tail(entries))

\* result.replaceAll(new RegExp(`\\[${key}\\]`, "ug"), replacement)
RECURSIVE replaceAll(_, _, _)
replaceAll(result, key, replacement) ==
    IF Len(result) = 0 THEN <<>>
    ELSE (IF Head(result).kind = "placeholder" /\ placeholderKey(Head(result)) = key
          THEN replacement ELSE <<Head(result)>>)
         \o replaceAll(Tail(result), key, replacement)

\* the name createInstance has computed after the first n replacement
\* functions: each is called with the whole argument array
\* (replacementFn(value)), which replaceAll converts to a string
RECURSIVE instanceName(_, _, _)
instanceName(template, value, n) ==
    IF n = 0 THEN template.talentName
    ELSE replaceAll(instanceName(template, value, n - 1), template.placeholderNames[n],
                    arrayToString(value.v))

\* createInstance without its validInstantiator guard
createInstanceUnguarded(template, value) == Throw(ReferenceError("description"))

\* createInstance(value): after the name, the description reads the
\* identifier description, which createTalentTemplate(talentName) does not
\* declare, so no talent is ever returned
createInstance(template, value) ==
    IF validInstantiator(template, value)
    THEN LET name == instanceName(template, value, Len(template.replacementFunctions))
         IN  Throw(ReferenceError("description"))
    ELSE Throw(RangeError("Invalid value for the talent creation"))

createTalent(template, value) ==
    IF validInstantiator(template, value)
    THEN createInstance(template, value)
    ELSE Throw(RangeError("Cannot create a talent from given the value"))

(***************************************************************************)
(* The state machine of a character: the options, the character built from *)
(* them (once a constructor call has returned) and the last call made.     *)
(***************************************************************************)
NoCharacter == [exists |-> FALSE, traits |-> <<>>, talents |-> <<>>, assets |-> <<>>]

Built(this) == [exists |-> TRUE, traits |-> this.traits, talents |-> this.talents,
                assets |-> this.assets]

NoCall == [op |-> "none", flag |-> FALSE, i |-> 0, j |-> 0, result |-> Return(Undefined)]

Call(op, flag, i, j, result) == [op |-> op, flag |-> flag, i |-> i, j |-> j, result |-> result]

IdleOptions == [traits |-> <<>>, talents |-> <<>>, assets |-> <<>>, normalize |-> FALSE]

NoTemplateCall == [op |-> "none", result |-> Return(Undefined)]

TemplateIdle ==
    /\ talentName = <<Text("Friend of ")>>
    /\ instantiator = Undefined
    /\ made = NoTemplateCall

CharacterIdle ==
    /\ options = IdleOptions
    /\ character = NoCharacter
    /\ last = NoCall

\* no library function has been given arguments, and none has been called
NoArguments == <<>>

NoAnswer == [fn |-> "none", result |-> Return(Undefined)]

LibraryIdle ==
    /\ input = NoArguments
    /\ answer = NoAnswer

InitCharacter ==
    /\ options \in OptionsSet
    /\ character = NoCharacter
    /\ last = NoCall
    /\ TemplateIdle
    /\ LibraryIdle

\* new DuneCharacter(options)
New ==
    LET r == constructor(options)
    IN  /\ character' = IF Returned(r) THEN Built(r.value) ELSE character
        /\ last' = Call("new", options.normalize, 0, 0,
                        IF Returned(r) THEN Return(Undefined) ELSE r)
        /\ UNCHANGED <<options, talentName, instantiator, made, input, answer>>

\* character.normalize()
Normalize ==
    /\ character.exists
    /\ LET r == normalize(character)
       IN  /\ character' = Built(r.this)
           /\ last' = Call("normalize", FALSE, 0, 0, r.outcome)
    /\ UNCHANGED <<options, talentName, instantiator, made, input, answer>>

\* character.check(failOnFirst)
Check(failOnFirst) ==
    /\ character.exists
    /\ LET r == check(character, failOnFirst)
       IN  /\ character' = Built(r.this)
           /\ last' = Call("check", failOnFirst, 0, 0, r.outcome)
    /\ UNCHANGED <<options, talentName, instantiator, made, input, answer>>

\* character.checkTraits(throwError)
CheckTraits(throwError) ==
    /\ character.exists
    /\ LET r == checkTraits(character, throwError)
       IN  /\ character' = Built(r.this)
           /\ last' = Call("checkTraits", throwError, 0, 0, r.outcome)
    /\ UNCHANGED <<options, talentName, instantiator, made, input, answer>>

\* character.checkAssets(throwError)
CheckAssets(throwError) ==
    /\ character.exists
    /\ LET r == checkAssets(character, throwError)
       IN  /\ character' = Built(r.this)
           /\ last' = Call("checkAssets", throwError, 0, 0, r.outcome)
    /\ UNCHANGED <<options, talentName, instantiator, made, input, answer>>

\* character.checkTalents(throwError)
CheckTalents(throwError) ==
    /\ character.exists
    /\ LET r == checkTalents(character, throwError)
       IN  /\ character' = Built(r.this)
           /\ last' = Call("checkTalents", throwError, 0, 0, r.outcome)
    /\ UNCHANGED <<options, talentName, instantiator, made, input, answer>>

\* the arguments checkTraits and checkTalents mean for checkSubGroup
SubGroupArgs(group) ==
    IF group = "trait"
    THEN [members |-> options.traits, identityFn |-> "(trait) => (trait.name)",
          identityEqualityFn |-> "undefined"]
    ELSE [members |-> options.talents, identityFn |-> "talentIdentity",
          identityEqualityFn |-> "talentIdentityEquality"]

\* DuneCharacter.checkSubGroup(group, members, undefined, identityFn,
\* identityEqualityFn, throwError), the static method called on its own
CheckSubGroup(group, throwError) ==
    /\ LET a == SubGroupArgs(group)
       IN  last' = Call("checkSubGroup", throwError, IF group = "trait" THEN 0 ELSE 1, 0,
                        checkSubGroup(group, a.members, Undefined, a.identityFn,
                                      a.identityEqualityFn, throwError))
    /\ UNCHANGED <<options, character, talentName, instantiator, made, input, answer>>

\* equalAssets(options.assets[i], options.assets[j])
EqualAssets(i, j) ==
    /\ i \in 1..Len(options.assets)
    /\ j \in 1..Len(options.assets)
    /\ last' = Call("equalAssets", FALSE, i, j,
                    Return(equalAssets(options.assets[i], options.assets[j])))
    /\ UNCHANGED <<options, character, talentName, instantiator, made, input, answer>>

\* the identity equality of checkTalents on the identities of two talents
TalentIdentityEquality(i, j) ==
    /\ i \in 1..Len(options.talents)
    /\ j \in 1..Len(options.talents)
    /\ last' = Call("talentIdentityEquality", FALSE, i, j,
                    Return(talentIdentityEquality(talentIdentity(options.talents[i]),
                                                  talentIdentity(options.talents[j]))))
    /\ UNCHANGED <<options, character, talentName, instantiator, made, input, answer>>

NextCharacter ==
    \/ New
    \/ Normalize
    \/ \E f \in BOOLEAN : Check(f)
    \/ \E f \in BOOLEAN : CheckTraits(f)
    \/ \E f \in BOOLEAN : CheckAssets(f)
    \/ \E f \in BOOLEAN : CheckTalents(f)
    \/ \E g \in {"trait", "talent"}, f \in BOOLEAN : CheckSubGroup(g, f)
    \/ \E i, j \in 1..MaxMembers : EqualAssets(i, j)
    \/ \E i, j \in 1..MaxMembers : TalentIdentityEquality(i, j)

Spec == InitCharacter /\ [][NextCharacter]_vars

(***************************************************************************)
(* The state machine of a talent template: a name pattern, an argument     *)
(* value and the last call made on the template built from the pattern.    *)
(***************************************************************************)
InitTemplate ==
    /\ talentName \in TalentNamePatterns
    /\ instantiator \in Instantiators
    /\ made = NoTemplateCall
    /\ CharacterIdle
    /\ LibraryIdle

\* createTalentTemplate(talentName).validInstantiator(instantiator)
ValidInstantiator ==
    /\ LET template == createTalentTemplate(talentName)
       IN  made' = [op |-> "validInstantiator",
                    result |-> IF Returned(template)
                               THEN Return(validInstantiator(template.value, instantiator))
                               ELSE template]
    /\ UNCHANGED <<talentName, instantiator, options, character, last, input, answer>>

\* createTalentTemplate(talentName).createInstance(instantiator)
CreateInstance ==
    /\ LET template == createTalentTemplate(talentName)
       IN  made' = [op |-> "createInstance",
                    result |-> IF Returned(template)
                               THEN createInstance(template.value, instantiator)
                               ELSE template]
    /\ UNCHANGED <<talentName, instantiator, options, character, last, input, answer>>

\* createTalent(createTalentTemplate(talentName), instantiator)
CreateTalent ==
    /\ LET template == createTalentTemplate(talentName)
       IN  made' = [op |-> "createTalent",
                    result |-> IF Returned(template)
                               THEN createTalent(template.value, instantiator)
                               ELSE template]
    /\ UNCHANGED <<talentName, instantiator, options, character, last, input, answer>>

NextTemplate ==
    \/ ValidInstantiator
    \/ CreateInstance
    \/ CreateTalent

SpecTemplate == InitTemplate /\ [][NextTemplate]_vars

(***************************************************************************)
(* The claims about the character.                                         *)
(***************************************************************************)
\* what the folding of duplicate traits is to produce: one trait per name, in
\* first-occurrence order, its count raised by one per later duplicate
RECURSIVE FoldedTraits(_)
FoldedTraits(traits) ==
    IF Len(traits) = 0 THEN <<>>
    ELSE LET before == FoldedTraits(SubSeq(traits, 1, Len(traits) - 1))
             trait == traits[Len(traits)]
             same == {i \in 1..Len(before) : before[i].name = trait.name}
         IN  IF same = {} THEN Append(before, trait)
             ELSE [before EXCEPT ![Min(same)].count = @ + 1]

HasDuplicateTraits(traits) ==
    \E i, j \in 1..Len(traits) : i < j /\ traits[i].name = traits[j].name

IsUnique(talent) == talent.unique \in {Undefined, Bool(TRUE)}

HasDuplicateTalents(talents) ==
    \E i, j \in 1..Len(talents) :
        i < j /\ IsUnique(talents[i]) /\ IsUnique(talents[j]) /\ talents[i].name = talents[j].name

HasDuplicateAssets(assets) ==
    \E i, j \in 1..Len(assets) : i < j /\ equalAssets(assets[i], assets[j])

Normalized == last.op \in {"new", "normalize"} /\ (last.op = "new" => options.normalize)

\* C1: normalize() folds duplicate traits into their first occurrence: one
\* trait per distinct name is left, in first-occurrence order, and each kept
\* trait's count is its original count plus one per later duplicate.
C1_NormalizeFoldsDuplicateTraits ==
    (last.op = "new" /\ options.normalize)
        => /\ Returned(last.result)
           /\ character.exists
           /\ character.traits = FoldedTraits(options.traits)

\* C2: once normalize() has run on a character, no two of its traits share a
\* name, no two of its unique talents share a name and no two of its assets
\* are asset-equal.
C2_PostNormalizationInvariant ==
    (Normalized /\ Returned(last.result))
        => /\ ~HasDuplicateTraits(character.traits)
           /\ ~HasDuplicateTalents(character.talents)
           /\ ~HasDuplicateAssets(character.assets)

\* C3: creating a character from options whose traits hold two traits of one
\* name raises no error; the duplicates end up as one trait with a raised count.
C3_DuplicateTraitsMergedNotRejected ==
    (last.op = "new" /\ HasDuplicateTraits(options.traits))
        => /\ Returned(last.result)
           /\ character.exists
           /\ character.traits = FoldedTraits(options.traits)

\* C4: under the identity and identity equality of checkTalents two talents
\* collide only if both are unique (unique absent counts as true) and share a
\* name; two non-unique talents, and a unique and a non-unique one, never collide.
C4_TalentCollisionRule ==
    last.op = "talentIdentityEquality"
        => (last.result.value
              <=> /\ IsUnique(options.talents[last.i])
                  /\ IsUnique(options.talents[last.j])
                  /\ options.talents[last.i].name = options.talents[last.j].name)

\* the types of two assets agree as ordered arrays (absent on both sides agrees)
TypesAgree(a, b) ==
    \/ a.types = Undefined /\ b.types = Undefined
    \/ /\ IsArray(a.types) /\ IsArray(b.types)
       /\ a.types.v = b.types.v

FiveFieldsAgree(a, b) ==
    /\ a.name = b.name
    /\ a.quality = b.quality
    /\ TypesAgree(a, b)
    /\ a.tanglible = b.tanglible
    /\ a.temporary = b.temporary

\* C5: two assets are asset-equal exactly when name, quality, types (as
\* ordered arrays), tangible and temporary agree, whatever reserved and
\* transferrable are, and the asset check reports such pairs as duplicates.
C5_AssetEqualityFiveFields ==
    /\ last.op = "equalAssets"
          => (last.result.value
                <=> FiveFieldsAgree(options.assets[last.i], options.assets[last.j]))
    /\ (last.op = "checkAssets" /\ ~last.flag)
          => /\ Returned(last.result)
             /\ DOMAIN last.result.value =
                  {character.assets[i].name : i \in
                      {k \in 1..Len(character.assets) :
                          \E j \in 1..(k - 1) :
                              FiveFieldsAgree(character.assets[j], character.assets[k])}}

\* the members, by index from 1, that collide with an earlier member under the
\* identity and identity equality functions of the sub-group
Colliding(a) ==
    {i \in 1..Len(a.members) :
        \E j \in 1..(i - 1) :
            equalityFnCall(a.identityEqualityFn,
                           identityFnCall(a.identityFn, a.members[j]),
                           identityFnCall(a.identityFn, a.members[i]))}

LastSubGroup == IF last.i = 0 THEN "trait" ELSE "talent"

\* C6: with throwError the sub-group check raises an AssertionError at the
\* first collision (and returns the empty report when there is none); without
\* it the check never raises, scans every element and returns the report that
\* lists each colliding element's error under that element's name.
C6_StrictVersusReportMode ==
    last.op = "checkSubGroup" =>
        LET a == SubGroupArgs(LastSubGroup)
            hits == Colliding(a)
        IN  IF last.flag /\ hits # {}
            THEN /\ Threw(last.result, "AssertionError")
                 /\ last.result.error.message[6] = Min(hits) - 1
            ELSE /\ Returned(last.result)
                 /\ DOMAIN last.result.value = {a.members[i].name : i \in hits}
                 /\ \A n \in DOMAIN last.result.value :
                       Len(last.result.value[n]) =
                           Cardinality({i \in hits : a.members[i].name = n})

\* C7: check(failOnFirst) returns one report with exactly the keys traits,
\* assets, talents, skills and drives; for a character without duplicates it
\* returns without raising and every sub-map of the report is empty.
C7_CheckReturnsFiveSubReports ==
    (/\ last.op = "check"
     /\ ~HasDuplicateTraits(character.traits)
     /\ ~HasDuplicateTalents(character.talents)
     /\ ~HasDuplicateAssets(character.assets))
        => /\ Returned(last.result)
           /\ DOMAIN last.result.value = {"traits", "assets", "talents", "skills", "drives"}
           /\ \A k \in DOMAIN last.result.value : last.result.value[k] = EmptyReport

(***************************************************************************)
(* The claims about talent templates.                                      *)
(***************************************************************************)
TheTemplate == createTalentTemplate(talentName).value

\* C8: validInstantiator(args) is true if and only if args is an array at
\* least as long as the number of distinct placeholders whose entry at every
\* placeholder position passes that placeholder's gatekeeper (extra trailing
\* arguments are allowed, a too short array is rejected).
C8_ValidInstantiatorIff ==
    made.op = "validInstantiator" =>
        (made.result.value
           <=> /\ IsArray(instantiator)
               /\ Len(instantiator.v) >= Len(TheTemplate.gatekeepers)
               /\ \A i \in 1..Len(TheTemplate.gatekeepers) :
                     gatekeeperCall(TheTemplate.gatekeepers[i], instantiator.v[i]))

\* the name the claim gives the instance: every placeholder replaced by the
\* display value of the argument at the position of its key
ClaimedInstanceName(template, value) ==
    [k \in 1..Len(template.talentName) |->
        LET piece == template.talentName[k]
        IN  IF piece.kind # "placeholder" THEN piece
            ELSE Text(value.v[CHOOSE i \in 1..Len(template.placeholderNames) :
                                 template.placeholderNames[i] = placeholderKey(piece)].v)]

\* C9: when validInstantiator(args) holds, createInstance(args) returns a
\* talent with count 1, unique true and isTalent true, named by the pattern
\* with every occurrence of each placeholder replaced by its argument.
C9_CreateInstanceBuildsTalent ==
    (made.op = "createInstance" /\ validInstantiator(TheTemplate, instantiator))
        => /\ Returned(made.result)
           /\ made.result.value.count = 1
           /\ made.result.value.unique = TRUE
           /\ made.result.value.isTalent = TRUE
           /\ made.result.value.name = ClaimedInstanceName(TheTemplate, instantiator)

\* C10: createInstance(args) and createTalent(template, args) raise a
\* RangeError, and return no talent, for every args validInstantiator rejects.
C10_RejectedArgumentsRaiseRangeError ==
    (made.op \in {"createInstance", "createTalent"}
       /\ ~validInstantiator(TheTemplate, instantiator))
        => Threw(made.result, "RangeError")

\* createInstance has refused an array one of whose entries its gatekeeper rejects
C10_Witness ==
    /\ made.op = "createInstance"
    /\ IsArray(instantiator)
    /\ Len(instantiator.v) = 1
    /\ Len(TheTemplate.gatekeepers) = 1
    /\ ~validInstantiator(TheTemplate, instantiator)
    /\ Threw(made.result, "RangeError")

(***************************************************************************)
(* Values of the domain predicates (src/src/model/integer.mjs).  A string  *)
(* the name grammar reads is given by its pieces: words, separators and    *)
(* other runs of characters, in order; its text is their concatenation.    *)
(* A plain object is given by its properties.                              *)
(***************************************************************************)
\* the largest number of pieces in a string handed to a name predicate
MaxPieces == 3
StrOf(pieces) == [t |-> "string", pieces |-> pieces]

Obj(props) == [t |-> "object", props |-> props]

\* NaN and negative zero; Num(0) is positive zero
NaN == [t |-> "number", nan |-> TRUE]

NegZero == [t |-> "number", negzero |-> TRUE]

\* +Infinity (sign 1) and -Infinity (sign -1)
Infinity(sign) == [t |-> "number", inf |-> sign]

\* the number sign * (2^exp + off): an integer beyond the integers Num holds
Pow2(sign, exp, off) == [t |-> "number", sign |-> sign, exp |-> exp, off |-> off]

\* the number 0.5
Half == [t |-> "number", halves |-> 1]

\* \p{Lu}\p{Ll}+ : a capitalised word
UpperWords == {"Thief", "Bene", "Gesserit"}

\* \p{Ll}+ : a run of lowercase letters (two or more)
LowerWords == {"trained", "true", "false"}

\* \p{Zs}
Spaces == {" "}

\* \p{Pd}
Dashes == {"-"}

\* ["']
Quotes == {"\"", "'"}

\* the class of nameWordRegex whose characters join the parts of one name
\* word: a dash, the grave accent, the apostrophe (and the acute accent,
\* which is no piece of the model).  The piece "<grave>" stands for the
\* grave accent (U+0060), a character that a string of this notation cannot
\* hold.
WordJoiners == Dashes \cup {"<grave>"} \cup {"'"}

\* \[\p{Lu}\p{Ll}*\p{N}*\]
Placeholders == {"[Skill]"}

\* the text the string literal "\k<quot>" denotes: an unknown escape in a
\* string literal drops the backslash, so the pattern holds these characters
KQuot == "k<quot>"

\* typeof value
typeOf(value) ==
    CASE value.t = "undefined" -> "undefined"
      [] value.t = "number" -> "number"
      [] value.t = "boolean" -> "boolean"
      [] value.t = "string" -> "string"
      [] value.t = "function" -> "function"
      [] value.t = "bigint" -> "bigint"
      [] value.t = "symbol" -> "symbol"
      [] OTHER -> "object"

\* value instanceof Object
instanceofObject(value) == value.t \in {"object", "array", "String", "function", "Set", "Map"}

\* the truthiness of a value
ToBoolean(value) ==
    CASE value.t \in {"undefined", "null"} -> FALSE
      [] value.t = "boolean" -> value.v
      [] value.t = "number" -> /\ value \notin {NaN, NegZero}
                               /\ "v" \in DOMAIN value => value.v # 0
      [] value.t = "string" -> IF "pieces" \in DOMAIN value THEN value.pieces # <<>> ELSE value.v # ""
      [] OTHER -> TRUE

\* "" + value, as pieces
stringOf(value) ==
    CASE value.t = "string" -> value.pieces
      [] value.t = "number" -> IF "v" \in DOMAIN value THEN <<ToString(value.v)>>
                               ELSE IF value = NaN THEN <<"NaN">>
                               ELSE IF value = NegZero THEN <<"0">>
                               ELSE IF value = Infinity(1) THEN <<"Infinity">>
                               ELSE IF value = Infinity(-1) THEN <<"-", "Infinity">>
                               ELSE IF value = Half THEN <<"0", ".", "5">>
                               ELSE IF value.sign < 0 THEN <<"-", "digits">>
                               ELSE <<"digits">>
      [] value.t = "boolean" -> IF value.v THEN <<"true">> ELSE <<"false">>
      [] value.t = "undefined" -> <<"undefined">>
      [] value.t = "null" -> <<"null">>
      [] value.t = "String" -> IF value.v = "" THEN <<>> ELSE <<value.v>>
      [] OTHER -> <<"[object Object]">>

\* a function declared with the given number of parameters
Fn(length) == [t |-> "function", length |-> length]

\* the properties of a value that the predicates look for: those of a plain
\* object, and the size and the methods every Set and Map has
propsOf(value) ==
    IF "props" \in DOMAIN value THEN value.props
    ELSE IF value.t \in {"Set", "Map"}
         THEN ("size" :> Num(Len(value.keys))) @@ ("has" :> Fn(1)) @@ ("keys" :> Fn(0))
              @@ ("values" :> Fn(0)) @@ ("Symbol.iterator" :> Fn(0))
              @@ ("forEach" :> Fn(1)) @@ ("entries" :> Fn(0))
              @@ ("clear" :> Fn(0)) @@ ("delete" :> Fn(1))
              @@ (IF value.t = "Set" THEN ("add" :> Fn(1))
                                     ELSE ("get" :> Fn(1)) @@ ("set" :> Fn(2)))
    ELSE <<>>

\* prop in value: a TypeError unless value is an object
propertyIn(prop, value) ==
    IF ~instanceofObject(value)
    THEN Throw(TypeError(<<"Cannot use 'in' operator to search for", prop>>))
    ELSE Return(Bool(prop \in DOMAIN propsOf(value)))

\* value[prop]: a TypeError on null and undefined, undefined where absent
Get(value, prop) ==
    IF value.t \in {"undefined", "null"}
    THEN Throw(TypeError(<<"Cannot read properties of", value.t>>))
    ELSE IF prop \in DOMAIN propsOf(value)
         THEN Return(propsOf(value)[prop])
         ELSE Return(Undefined)

\* a && b && ... over operands that have no effect: the first operand that
\* throws or is falsy, else the last
andChain(operands) ==
    LET stops == {i \in 1..Len(operands) :
                     ~Returned(operands[i]) \/ ~ToBoolean(operands[i].value)}
    IN  IF stops = {} THEN operands[Len(operands)] ELSE operands[Min(stops)]

(***************************************************************************)
(* The name grammar.  Positions are 1..Len(s)+1; a matcher gives the set   *)
(* of positions at which a match starting at i can end.                    *)
(***************************************************************************)
\* the positions \p{Ll}+ may have reached after a word piece that ends before j
afterLower(s, j) ==
    {k \in j..(Len(s) + 1) : \A m \in j..(k - 1) : s[m] \in LowerWords}

\* nameWordRegex
wordEnds(s, i) ==
    LET head == IF i <= Len(s) /\ s[i] \in UpperWords THEN afterLower(s, i + 1) ELSE {}
        part(j) == IF j + 1 <= Len(s) /\ s[j] \in WordJoiners
                      /\ s[j + 1] \in UpperWords \cup LowerWords
                   THEN afterLower(s, j + 2) ELSE {}
        ends[n \in 0..Len(s)] ==
            IF n = 0 THEN head
            ELSE ends[n - 1] \cup UNION {part(j) : j \in ends[n - 1]}
    IN  ends[Len(s)]

\* namesWordRegex: a name word, a dash or a space, and a name word
namesWordEnds(s, i) ==
    UNION {IF j <= Len(s) /\ s[j] \in Dashes \cup Spaces THEN wordEnds(s, j + 1) ELSE {}
           : j \in wordEnds(s, i)}

\* nameRegEx.test(s)
nameRegExTest(s) ==
    LET group(j) ==
            IF j <= Len(s) /\ s[j] \in Spaces
            THEN LET starts == {j + 1} \cup
                               (IF j + 1 <= Len(s) /\ s[j + 1] \in Quotes THEN {j + 2} ELSE {})
                     words == UNION {namesWordEnds(s, q) : q \in starts}
                 IN  {e + 1 : e \in {w \in words : w <= Len(s) /\ s[w] = KQuot}}
            ELSE {}
        ends[n \in 0..Len(s)] ==
            IF n = 0 THEN wordEnds(s, 1)
            ELSE ends[n - 1] \cup UNION {group(j) : j \in ends[n - 1]}
    IN  (Len(s) + 1) \in ends[Len(s)]

\* nameWordOrPlaceholderRegex
wordOrPlaceholderEnds(s, i) ==
    wordEnds(s, i) \cup (IF i <= Len(s) /\ s[i] \in Placeholders THEN {i + 1} ELSE {})

\* nameWordsOrPlaceholdersWordRegex
wordsOrPlaceholdersEnds(s, i) ==
    UNION {IF j <= Len(s) /\ s[j] \in Dashes \cup Spaces
           THEN wordOrPlaceholderEnds(s, j + 1) ELSE {}
           : j \in wordOrPlaceholderEnds(s, i)}

\* nameWithPlaceholdersRegEx.test(s)
nameWithPlaceholdersRegExTest(s) ==
    LET group(j) ==
            IF j <= Len(s) /\ s[j] \in Spaces
            THEN LET starts == {j + 1} \cup
                               (IF j + 1 <= Len(s) /\ s[j + 1] \in Quotes THEN {j + 2} ELSE {})
                     words == UNION {wordsOrPlaceholdersEnds(s, q) : q \in starts}
                 IN  {e + 1 : e \in {w \in words : w <= Len(s) /\ s[w] = KQuot}}
            ELSE {}
        ends[n \in 0..Len(s)] ==
            IF n = 0 THEN wordOrPlaceholderEnds(s, 1)
            ELSE ends[n - 1] \cup UNION {group(j) : j \in ends[n - 1]}
    IN  (Len(s) + 1) \in ends[Len(s)]

(***************************************************************************)
(* The domain predicates.                                                  *)
(***************************************************************************)
\* the runs of decimal digits a string is made of: the number each denotes
\* and the power of ten of its length
DigitRuns ==
    [d \in {"0", "1", "2", "3", "4", "5", "6", "7", "8", "9"} |->
        <<CHOOSE n \in 0..9 : ToString(n) = d, 10>>]
        @@ ("42" :> <<42, 100>>)

\* the number a sequence of digit runs denotes
RECURSIVE decimal(_)
decimal(runs) ==
    IF runs = <<>> THEN 0
    ELSE decimal(SubSeq(runs, 1, Len(runs) - 1)) * DigitRuns[runs[Len(runs)]][2]
            + DigitRuns[runs[Len(runs)]][1]

\* the string without the white space at its ends
trim(pieces) ==
    LET inked == {i \in 1..Len(pieces) : pieces[i] \notin Spaces}
    IN  IF inked = {} THEN <<>>
        ELSE SubSeq(pieces, Min(inked), CHOOSE i \in inked : \A j \in inked : j <= i)

\* +value of a string: white space is trimmed, the empty string is 0, then
\* an optional sign and either Infinity or decimal digits (the strings of
\* the model hold no decimal point, exponent or radix prefix); else NaN
stringToNumber(pieces) ==
    LET trimmed == trim(pieces)
        signed == trimmed # <<>> /\ trimmed[1] \in {"+", "-"}
        negative == signed /\ trimmed[1] = "-"
        digits == IF signed THEN Tail(trimmed) ELSE trimmed
    IN  IF trimmed = <<>> THEN Num(0)
        ELSE IF digits = <<"Infinity">> THEN Infinity(IF negative THEN -1 ELSE 1)
        ELSE IF digits # <<>> /\ \A i \in 1..Len(digits) : digits[i] \in DOMAIN DigitRuns
             THEN IF negative
                  THEN IF decimal(digits) = 0 THEN NegZero ELSE Num(-decimal(digits))
                  ELSE Num(decimal(digits))
        ELSE NaN

\* +value of a string, a number or a boolean
toNumber(value) ==
    IF value.t = "number" THEN value
    ELSE IF value.t = "boolean" THEN Num(IF value.v THEN 1 ELSE 0)
    ELSE stringToNumber(value.pieces)

\* Number.isSafeInteger accepting 2^53 and -(2^53)
isSafeIntegerInclusive(value) ==
    /\ value.t = "number"
    /\ \/ "v" \in DOMAIN value
       \/ value = NegZero
       \/ "exp" \in DOMAIN value
             /\ (value.exp < 53 \/ (value.exp = 53 /\ value.off <= 0))

\* Number.isSafeInteger: an integer between -(2^53 - 1) and 2^53 - 1; every
\* Num(n) of the model lies in that range
isSafeInteger(value) ==
    /\ value.t = "number"
    /\ \/ "v" \in DOMAIN value
       \/ value = NegZero
       \/ "exp" \in DOMAIN value
             /\ (value.exp < 53 \/ (value.exp = 53 /\ value.off < 0))

isInteger(value) ==
    IF typeOf(value) \in {"string", "number"}
    THEN Return(Bool(isSafeInteger(toNumber(value))))
    ELSE Return(Bool(FALSE))

\* toInteger returning the value as it was given
toIntegerUnconverted(value) ==
    IF isInteger(value).value.v
    THEN Return(value)
    ELSE Throw(TypeError(<<"THe value is not a safe integer">>))

toInteger(value) ==
    IF isInteger(value).value.v
    THEN Return(toNumber(value))
    ELSE Throw(TypeError(<<"THe value is not a safe integer">>))

assertInteger(value) ==
    IF ~isInteger(value).value.v
    THEN Throw(AssertionError(<<"Cannot conver the value to a safe integer">>))
    ELSE Return(Undefined)

isNamed(value) ==
    IF value \in {Null, Undefined} THEN Return(Bool(FALSE))
    ELSE Return(Bool(nameRegExTest(stringOf(value))))

isNamedWithPlaceholders(value) ==
    IF value \in {Null, Undefined} THEN Return(Bool(FALSE))
    ELSE Return(Bool(nameWithPlaceholdersRegExTest(stringOf(value))))

isDescribed(value) ==
    IF ~instanceofObject(value) THEN Return(Bool(FALSE))
    ELSE IF ~propertyIn("description", value).value.v THEN Return(Bool(FALSE))
    ELSE LET description == Get(value, "description").value
         IN  Return(Bool(/\ typeOf(description) = "string" \/ description.t = "String"
                         /\ stringOf(description) # <<>>))

isOptionallyDescribed(value) ==
    IF ~instanceofObject(value) THEN Return(Bool(FALSE))
    ELSE IF ~propertyIn("description", value).value.v THEN Return(Bool(TRUE))
    ELSE isDescribed(value)

isTrait(tested) ==
    andChain(<<Return(Bool(typeOf(tested) = "object")),
               propertyIn("isTrait", tested),
               Get(tested, "isTrait"),
               isNamed(tested),
               isOptionallyDescribed(tested)>>)

\* !(prop in tested) || typeof tested[prop] === type
optionalOfType(tested, prop, type) ==
    LET has == propertyIn(prop, tested)
    IN  IF ~Returned(has) THEN has
        ELSE Return(Bool(~has.value.v \/ typeOf(Get(tested, prop).value) = type))

isTalent(tested) ==
    andChain(<<Return(Bool(typeOf(tested) = "object")),
               propertyIn("isTalent", tested),
               Get(tested, "isTalent"),
               isNamed(tested),
               isDescribed(tested),
               optionalOfType(tested, "unique", "boolean")>>)

\* !("quality" in tested) || isInteger(tested.quality)
optionalQuality(tested) ==
    LET has == propertyIn("quality", tested)
    IN  IF ~Returned(has) THEN has
        ELSE IF ~has.value.v THEN Return(Bool(TRUE))
        ELSE isInteger(Get(tested, "quality").value)

\* [...].every(property => !(property in tested) || typeof tested[property] === "boolean")
everyFlagBoolean(tested) ==
    LET properties == <<"tanglible", "temporary", "remserved", "transferrable">>
        tests == [i \in 1..Len(properties) |-> optionalOfType(tested, properties[i], "boolean")]
        stops == {i \in 1..Len(properties) : ~Returned(tests[i]) \/ ~tests[i].value.v}
    IN  IF stops = {} THEN Return(Bool(TRUE))
        ELSE IF Returned(tests[Min(stops)]) THEN Return(Bool(FALSE))
        ELSE tests[Min(stops)]

isAsset(tested) ==
    andChain(<<isTrait(tested),
               propertyIn("isAsset", tested),
               Get(tested, "isAsset"),
               optionalQuality(tested),
               everyFlagBoolean(tested),
               isNamed(tested),
               isDescribed(tested)>>)

\* ["challenged"].every(prop => !(prop in tested) || typeof tested === "boolean")
challengedTest(tested) ==
    LET has == propertyIn("challenged", tested)
    IN  IF ~Returned(has) THEN has
        ELSE Return(Bool(~has.value.v \/ typeOf(tested) = "boolean"))

\* ["value"].every(prop => !(prop in tested) || isInteger(prop.value)): prop
\* is the string "value", which has no property "value"
valueTest(tested) ==
    LET has == propertyIn("value", tested)
    IN  IF ~Returned(has) THEN has
        ELSE IF ~has.value.v THEN Return(Bool(TRUE))
        ELSE isInteger(Get(StrOf(<<"value">>), "value").value)

\* ["statement"].every(prop => !(prop in tested) ||
\*     typeof tested[prop] === "string" && tested[prop].length > 0)
statementTest(tested) ==
    LET has == propertyIn("statement", tested)
    IN  IF ~Returned(has) THEN has
        ELSE IF ~has.value.v THEN Return(Bool(TRUE))
        ELSE LET statement == Get(tested, "statement").value
             IN  Return(Bool(typeOf(statement) = "string" /\ stringOf(statement) # <<>>))

isDrive(tested) ==
    andChain(<<isNamed(tested),
               propertyIn("isDrive", tested),
               IF Returned(Get(tested, "isDrive"))
               THEN Return(Bool(Get(tested, "isDrive").value = Bool(TRUE)))
               ELSE Get(tested, "isDrive"),
               challengedTest(tested),
               valueTest(tested),
               statementTest(tested)>>)

(***************************************************************************)
(* The state machine of the domain predicates: a value, and the last       *)
(* predicate applied to it.                                                *)
(***************************************************************************)
NamePieces == {"Bene", "trained", " ", "-", "'", KQuot, "42", "[Skill]"}

\* the names the tests of the repository and its documents use, and a name
\* long enough for the quoted group of the grammar
DocumentedNames ==
    {<<"Thief">>,
     <<"Bene", " ", "Gesserit">>,
     <<"Bene", " ", "Gesserit", " ", "trained">>,
     <<"Bene", " ", "Gesserit", "-", "Thief", KQuot>>,
     <<"Bene", " ", "'", "Gesserit", " ", "Thief", KQuot>>}

NameStrings ==
    {StrOf(pieces) : pieces \in DocumentedNames \cup
                                UNION {[1..n -> NamePieces] : n \in 0..MaxPieces}}

MarkerProps ==
    {<<>>, ("isTrait" :> Bool(TRUE)) @@ ("isAsset" :> Bool(TRUE))} \cup
    {(marker :> value) : marker \in {"isTrait", "isTalent", "isAsset", "isDrive"},
                         value \in {Bool(TRUE), Bool(FALSE), Undefined}}

NameProps ==
    {<<>>, ("name" :> Undefined), ("name" :> StrOf(<<"Thief">>)),
     ("name" :> StrOf(<<"Bene", " ", "Gesserit", " ", "trained">>))}

DescriptionProps ==
    {<<>>, ("description" :> StrOf(<<>>)), ("description" :> Num(42)),
     ("description" :> StrOf(<<"Thief", " ", "trained">>))}

OtherProps ==
    {<<>>, ("quality" :> Num(1)), ("unique" :> Bool(TRUE)), ("challenged" :> Bool(TRUE)),
     ("value" :> Num(4)), ("statement" :> StrOf(<<"Bene">>))}

PlainObjects ==
    {Obj(marker @@ name @@ description @@ other) :
        marker \in MarkerProps, name \in NameProps,
        description \in DescriptionProps, other \in OtherProps}

PredicateInputs ==
    {Undefined, Null, Num(42), Bool(TRUE)} \cup NameStrings \cup PlainObjects

InitPredicates ==
    /\ input \in PredicateInputs
    /\ answer = NoAnswer
    /\ CharacterIdle
    /\ TemplateIdle

Answer(fn, result) ==
    /\ answer' = [fn |-> fn, result |-> result]
    /\ UNCHANGED <<input, options, character, last, talentName, instantiator, made>>

IsNamed == Answer("isNamed", isNamed(input))

IsNamedWithPlaceholders == Answer("isNamedWithPlaceholders", isNamedWithPlaceholders(input))

IsDescribed == Answer("isDescribed", isDescribed(input))

IsOptionallyDescribed == Answer("isOptionallyDescribed", isOptionallyDescribed(input))

IsTrait == Answer("isTrait", isTrait(input))

IsTalent == Answer("isTalent", isTalent(input))

IsAsset == Answer("isAsset", isAsset(input))

IsDrive == Answer("isDrive", isDrive(input))

NextPredicates ==
    \/ IsNamed
    \/ IsNamedWithPlaceholders
    \/ IsDescribed
    \/ IsOptionallyDescribed
    \/ IsTrait
    \/ IsTalent
    \/ IsAsset
    \/ IsDrive

SpecPredicates == InitPredicates /\ [][NextPredicates]_vars

(***************************************************************************)
(* The claims about the domain predicates.                                 *)
(***************************************************************************)
DomainPredicates ==
    {"isNamed", "isNamedWithPlaceholders", "isDescribed", "isOptionallyDescribed",
     "isTrait", "isTalent", "isAsset", "isDrive"}

\* C11: no domain predicate throws: on every input (null, undefined,
\* primitive strings and numbers, objects missing members) each returns a
\* boolean, and the object predicates return false on a value that is no object.
C11_DomainPredicatesNeverThrow ==
    answer.fn \in DomainPredicates
        => /\ Returned(answer.result)
           /\ answer.result.value \in {Bool(TRUE), Bool(FALSE)}
           /\ (answer.fn \notin {"isNamed", "isNamedWithPlaceholders"} /\ input.t # "object")
                 => answer.result.value = Bool(FALSE)

\* an object with isTrait true, a name of the Named grammar and either no
\* description or a non-empty string description
DocumentedTrait(v) ==
    /\ v.t = "object"
    /\ "isTrait" \in DOMAIN v.props /\ v.props["isTrait"] = Bool(TRUE)
    /\ "name" \in DOMAIN v.props /\ v.props["name"].t = "string"
    /\ v.props["name"].pieces \in {<<"Thief">>, <<"Bene", " ", "Gesserit", " ", "trained">>}
    /\ \/ "description" \notin DOMAIN v.props
       \/ /\ v.props["description"].t = "string"
          /\ v.props["description"].pieces # <<>>

\* undefined, null, a bare string, an object whose name is undefined and an
\* object with no name
DocumentedNoTrait(v) ==
    \/ v \in {Undefined, Null}
    \/ v.t = "string"
    \/ v.t = "object" /\ ("name" \notin DOMAIN v.props \/ v.props["name"] = Undefined)

\* C12: isTrait(v) is true for every object with isTrait true, a Named name
\* ("Thief", "Bene Gesserit trained") and no description or a non-empty string
\* description; it is false for undefined, null, a bare string, an object
\* whose name is undefined and an object with no name.
C12_IsTraitAcceptsTraits ==
    answer.fn = "isTrait"
        => /\ DocumentedTrait(input) => answer.result = Return(Bool(TRUE))
           /\ DocumentedNoTrait(input) => answer.result = Return(Bool(FALSE))

\* one or more capitalized words joined by space or dash
wordsJoined(s) ==
    LET next(j) == IF j <= Len(s) /\ s[j] \in Spaces \cup Dashes
                   THEN wordEnds(s, j + 1) ELSE {}
        ends[n \in 0..Len(s)] ==
            IF n = 0 THEN wordEnds(s, 1)
            ELSE ends[n - 1] \cup UNION {next(j) : j \in ends[n - 1]}
    IN  (Len(s) + 1) \in ends[Len(s)]

\* C13: isNamed(v) is true exactly when the string conversion of v is one or
\* more capitalized words joined by space or dash (stated here for the strings
\* without a quoted segment): "Bene Gesserit" and a single capitalized word are
\* accepted, the empty string and 42 are rejected.
C13_IsNamedMatchesGrammar ==
    (answer.fn = "isNamed" /\ input.t \in {"string", "number"}
        /\ \A i \in 1..Len(stringOf(input)) : stringOf(input)[i] \notin Quotes)
        => answer.result = Return(Bool(wordsJoined(stringOf(input))))

(***************************************************************************)
(* The equality library (src/src/model/equality.base.mjs).                 *)
(***************************************************************************)
\* a plain object without properties; two objects are the same object when
\* their identities are
Ref(id) == [t |-> "object", id |-> id, props |-> <<>>]

\* the language type of a value: every object, whatever its class, is an object
languageType(value) ==
    IF value.t \in {"undefined", "null", "number", "boolean", "string"} THEN value.t
    ELSE "object"

\* compared === comparee
strictEquals(compared, comparee) ==
    IF compared.t = "number" /\ comparee.t = "number"
    THEN /\ compared # NaN
         /\ comparee # NaN
         /\ (IF compared = NegZero THEN 0 ELSE compared.v)
              = (IF comparee = NegZero THEN 0 ELSE comparee.v)
    ELSE compared = comparee

\* Object.is(compared, comparee)
objectIs(compared, comparee) == compared = comparee

\* compared == comparee
RECURSIVE looseEquals(_, _)
looseEquals(compared, comparee) ==
    IF languageType(compared) = languageType(comparee) THEN strictEquals(compared, comparee)
    ELSE IF compared \in {Null, Undefined} \/ comparee \in {Null, Undefined}
         THEN compared \in {Null, Undefined} /\ comparee \in {Null, Undefined}
    ELSE IF compared.t = "number" /\ comparee.t = "string"
         THEN strictEquals(compared, toNumber(comparee))
    ELSE IF compared.t = "string" /\ comparee.t = "number"
         THEN strictEquals(toNumber(compared), comparee)
    ELSE IF compared.t = "boolean" THEN looseEquals(toNumber(compared), comparee)
    ELSE IF comparee.t = "boolean" THEN looseEquals(compared, toNumber(comparee))
    ELSE IF languageType(compared) = "object"
         THEN looseEquals(StrOf(stringOf(compared)), comparee)
    ELSE looseEquals(compared, StrOf(stringOf(comparee)))

equality(compared, comparee) == Return(Bool(looseEquals(compared, comparee)))

strictEquality(compared, comparee) == Return(Bool(strictEquals(compared, comparee)))

\* Number has no property sameValueZero: the call of undefined is a TypeError
sameValueZero(compared, comparee) ==
    IF typeOf(compared) # typeOf(comparee) THEN Return(Bool(FALSE))
    ELSE IF compared \in {Null, Undefined} THEN Return(Bool(TRUE))
    ELSE IF typeOf(compared) = "number"
         THEN Throw(TypeError(<<"Number.sameValueZero", "is not a function">>))
    ELSE Return(Bool(objectIs(compared, comparee)))

\* Number has no property sameValue: the call of undefined is a TypeError
sameValue(compared, comparee) ==
    IF typeOf(compared) # typeOf(comparee) THEN Return(Bool(FALSE))
    ELSE IF compared \in {Null, Undefined} THEN Return(Bool(TRUE))
    ELSE IF typeOf(compared) = "number"
         THEN Throw(TypeError(<<"Number.sameValue", "is not a function">>))
    ELSE Return(Bool(objectIs(compared, comparee)))

(***************************************************************************)
(* The state machine of the equality library: two values, and the last     *)
(* equality function applied to them.                                      *)
(***************************************************************************)
EqualityValues ==
    {Undefined, Null, Num(0), NegZero, Num(1), Num(42), NaN,
     StrOf(<<>>), StrOf(<<"42">>), StrOf(<<"Thief">>),
     Bool(TRUE), Bool(FALSE), Ref(1), Ref(2)}

InitEquality ==
    /\ input \in EqualityValues \X EqualityValues
    /\ answer = NoAnswer
    /\ CharacterIdle
    /\ TemplateIdle

Equality == Answer("equality", equality(input[1], input[2]))

StrictEquality == Answer("strictEquality", strictEquality(input[1], input[2]))

SameValueZero == Answer("sameValueZero", sameValueZero(input[1], input[2]))

SameValue == Answer("sameValue", sameValue(input[1], input[2]))

NextEquality ==
    \/ Equality
    \/ StrictEquality
    \/ SameValueZero
    \/ SameValue

SpecEquality == InitEquality /\ [][NextEquality]_vars

(***************************************************************************)
(* The claims about the equality library.                                  *)
(***************************************************************************)
\* C14: sameValueZero(v, v) is true for every v: numbers (NaN and both zeros
\* included), strings, booleans, null, undefined and objects.
C14_SameValueZeroReflexive ==
    (answer.fn = "sameValueZero" /\ input[1] = input[2])
        => answer.result = Return(Bool(TRUE))

\* C15: sameValue(+0, -0) is false, sameValueZero(+0, -0) is true, and on every
\* other pair of values the two functions return the same result.
C15_SameValueDiffersOnZeroOnly ==
    /\ (answer.fn = "sameValue" /\ input = <<Num(0), NegZero>>)
          => answer.result = Return(Bool(FALSE))
    /\ (answer.fn = "sameValueZero" /\ input = <<Num(0), NegZero>>)
          => answer.result = Return(Bool(TRUE))
    /\ (answer.fn \in {"sameValue", "sameValueZero"}
          /\ input \notin {<<Num(0), NegZero>>, <<NegZero, Num(0)>>})
          => /\ Returned(answer.result)
             /\ sameValue(input[1], input[2]) = sameValueZero(input[1], input[2])

BothNullish == input[1] \in {Null, Undefined} /\ input[2] \in {Null, Undefined}

\* C16: each of the four equality functions (loose equality, strictEquality,
\* sameValue, sameValueZero) returns false for two values whose runtime types
\* differ, unless both are nullish.
C16_FourFailClosed ==
    (answer.fn \in {"equality", "strictEquality", "sameValue", "sameValueZero"}
        /\ languageType(input[1]) # languageType(input[2]) /\ ~BothNullish)
        => answer.result = Return(Bool(FALSE))

\* C17: the four equality functions are total: on every pair of values each
\* returns a boolean and none throws.
C17_EqualityFunctionsTotal ==
    answer.fn \in {"equality", "strictEquality", "sameValue", "sameValueZero"}
        => /\ Returned(answer.result)
           /\ answer.result.value \in {Bool(TRUE), Bool(FALSE)}

(***************************************************************************)
(* Set-likes (src/src/model/setlike.mjs) and the equality of collections   *)
(* (src/src/model/equality.mjs; src/unnamed/part_001 holds the same        *)
(* functions with another default in equalMaps).                           *)
(***************************************************************************)
\* the largest number of elements of an array, a set or a map
MaxLength == 2

\* a Set with the given keys in insertion order
SetOf(keys) == [t |-> "Set", keys |-> keys]

\* a Map with the given keys in insertion order and their values
MapOf(keys, values) == [t |-> "Map", keys |-> keys, values |-> values]

\* an object that is no Set, with a size, a has(value) and a keys()
SetLikeObject(keys) ==
    [t |-> "object",
     props |-> ("size" :> Num(Len(keys))) @@ ("has" :> Fn(1)) @@ ("keys" :> Fn(0)),
     keys |-> keys]

\* isFunction of setlike.mjs; options holds minParams, maxParams or neither
isFunctionOfSetlike(value, testOptions) ==
    /\ typeOf(value) = "function"
    /\ (IF "minParams" \in DOMAIN testOptions THEN testOptions["minParams"] ELSE 0) <= value.length
    /\ ("maxParams" \in DOMAIN testOptions) => value.length <= testOptions["maxParams"]

isSetLike(value) ==
    Return(Bool(
        /\ instanceofObject(value)
        /\ "size" \in DOMAIN propsOf(value) /\ typeOf(propsOf(value)["size"]) = "number"
        /\ "has" \in DOMAIN propsOf(value)
        /\ isFunctionOfSetlike(propsOf(value)["has"], ("minParams" :> 1))
        /\ "keys" \in DOMAIN propsOf(value)
        /\ isFunctionOfSetlike(propsOf(value)["keys"], ("minParams" :> 0))))

\* the call of the equality function named fn
equalityFn(fn, compared, comparee) ==
    CASE fn = "equality" -> equality(compared, comparee)
      [] fn = "strictEquality" -> strictEquality(compared, comparee)
      [] fn = "sameValueZero" -> sameValueZero(compared, comparee)
      [] fn = "sameValue" -> sameValue(compared, comparee)

\* a parameter with a default: an argument left out is "undefined"
defaultTo(argument, default) == IF argument = "undefined" THEN default ELSE argument

\* Array.prototype.every over the outcomes of its callback, in order
every(outcomes) ==
    LET stops == {i \in 1..Len(outcomes) :
                     ~Returned(outcomes[i]) \/ ~ToBoolean(outcomes[i].value)}
    IN  IF stops = {} THEN Return(Bool(TRUE))
        ELSE IF Returned(outcomes[Min(stops)]) THEN Return(Bool(FALSE))
        ELSE outcomes[Min(stops)]

\* whether an outcome of the callback is truthy, a throw passed on
found(outcomes) ==
    LET stops == {i \in 1..Len(outcomes) :
                     ~Returned(outcomes[i]) \/ ToBoolean(outcomes[i].value)}
    IN  IF stops = {} THEN Return(Bool(FALSE))
        ELSE IF Returned(outcomes[Min(stops)]) THEN Return(Bool(TRUE))
        ELSE outcomes[Min(stops)]

\* a.slice()
slice(a) == Arr([i \in 1..Len(a.v) |-> a.v[i]])

\* equalArrays that looks for each element of a anywhere in b
equalArraysUnordered(a, b, fn) ==
    IF ~(IsArray(a) /\ IsArray(b)) THEN Return(Bool(FALSE))
    ELSE IF Len(a.v) # Len(b.v) THEN Return(Bool(FALSE))
    ELSE every([index \in 1..Len(a.v) |->
                   found([other \in 1..Len(b.v) |->
                            equalityFn(defaultTo(fn, "strictEquality"),
                                       a.v[index], b.v[other])])])

\* equalArrays(a, b, equalityFn = strictEquality) of equality.mjs
equalArraysBy(a, b, fn) ==
    IF ~(IsArray(a) /\ IsArray(b)) THEN Return(Bool(FALSE))
    ELSE IF Len(a.v) # Len(b.v) THEN Return(Bool(FALSE))
    ELSE every([index \in 1..Len(a.v) |->
                   equalityFn(defaultTo(fn, "strictEquality"), a.v[index], b.v[index])])

\* x >= 0 of the result x of a call: true >= 0 and false >= 0 are both true,
\* undefined >= 0 and NaN >= 0 are false
atLeastZero(outcome) ==
    IF ~Returned(outcome) THEN outcome
    ELSE LET x == outcome.value
         IN  Return(Bool(CASE x.t \in {"boolean", "null"} -> TRUE
                           [] x.t = "number" -> x = NegZero \/ ("v" \in DOMAIN x /\ x.v >= 0)
                           [] OTHER -> FALSE))

\* Array.prototype.findIndex over the outcomes of its callback: the index
\* from 0 of the first truthy one, -1 where there is none
findIndex(outcomes) ==
    LET stops == {i \in 1..Len(outcomes) :
                     ~Returned(outcomes[i]) \/ ToBoolean(outcomes[i].value)}
    IN  IF stops = {} THEN Return(Num(-1))
        ELSE IF Returned(outcomes[Min(stops)]) THEN Return(Num(Min(stops) - 1))
        ELSE outcomes[Min(stops)]

\* equalSets(compared, comparee, equalityFn = strictEquality) of equality.mjs:
\* the callback of each findIndex is (item) => (equalityFn(...)) >= 0, and
\* the callback of each every gives the index that findIndex returns
equalSets(compared, comparee, fn) ==
    IF ~(isSetLike(compared).value.v /\ isSetLike(comparee).value.v)
    THEN Return(Bool(FALSE))
    ELSE IF compared.t = "Set" /\ comparee.t = "Set"
            /\ Len(compared.keys) # Len(comparee.keys)
         THEN Return(Bool(FALSE))
    ELSE LET compareeKeys == comparee.keys
             comparedKeys == compared.keys
             equalityFnOf == defaultTo(fn, "strictEquality")
         IN  andChain(<<
                every([k \in 1..Len(comparedKeys) |->
                    findIndex([i \in 1..Len(compareeKeys) |->
                        atLeastZero(equalityFn(equalityFnOf,
                                               compareeKeys[i], comparedKeys[k]))])]),
                every([k \in 1..Len(compareeKeys) |->
                    findIndex([i \in 1..Len(comparedKeys) |->
                        atLeastZero(equalityFn(equalityFnOf,
                                               compareeKeys[k], comparedKeys[i]))])])>>)

\* map.get(key): the value of the key that is the same value (zeros alike)
get(map, key) ==
    IF map.t # "Map" THEN Throw(TypeError(<<"get", "is not a function">>))
    ELSE LET at == {i \in 1..Len(map.keys) :
                       \/ map.keys[i] = key
                       \/ {map.keys[i], key} = {Num(0), NegZero}}
         IN  IF at = {} THEN Return(Undefined) ELSE Return(map.values[Min(at)])

\* [...compared.keys()].every(key => valueEqualityFn(compared.get(key), comparee.get(key)))
everyValue(compared, comparee, valueEqualityFn) ==
    every([k \in 1..Len(compared.keys) |->
        LET mine == get(compared, compared.keys[k])
            theirs == get(comparee, compared.keys[k])
        IN  IF ~Returned(mine) THEN mine
            ELSE IF ~Returned(theirs) THEN theirs
            ELSE equalityFn(valueEqualityFn, mine.value, theirs.value)])

\* equalMaps of equality.mjs: keyEqualityFn = sameValueZero, valueEqualityFn = strictEquality
equalMaps(compared, comparee, keyEqualityFn, valueEqualityFn) ==
    LET sameKeys == equalSets(compared, comparee, defaultTo(keyEqualityFn, "sameValueZero"))
    IN  IF ~Returned(sameKeys) \/ ~ToBoolean(sameKeys.value) THEN sameKeys
        ELSE everyValue(compared, comparee, defaultTo(valueEqualityFn, "strictEquality"))

\* equalMaps of unnamed/part_001: the default of keyEqualityFn is the name
\* sameValueZeroEquality, which nothing declares; reading it when the argument
\* is left out throws a ReferenceError
equalMapsOfPart001(compared, comparee, keyEqualityFn, valueEqualityFn) ==
    IF keyEqualityFn = "undefined" THEN Throw(ReferenceError("sameValueZeroEquality"))
    ELSE LET sameKeys == equalSets(compared, comparee, keyEqualityFn)
         IN  IF ~Returned(sameKeys) \/ ~ToBoolean(sameKeys.value) THEN sameKeys
             ELSE everyValue(compared, comparee, defaultTo(valueEqualityFn, "strictEquality"))

(***************************************************************************)
(* The state machine of the collection equalities: two collections, the    *)
(* equality arguments of the call, and the last function applied.          *)
(***************************************************************************)
Elements == {Num(1), Num(2), NaN, Ref(1)}

MapKeys == {Num(1), StrOf(<<"Thief">>)}

MapValues == {Num(1), NaN}

EqualityArguments == {"undefined", "equality", "strictEquality", "sameValueZero", "sameValue"}

\* the sequences without repetition of at most n members of S
Distinct(S, n) ==
    UNION {{q \in [1..k -> S] : \A i, j \in 1..k : q[i] = q[j] => i = j} : k \in 0..n}

Arrays == {Arr(q) : q \in UNION {[1..k -> Elements] : k \in 0..MaxLength}}

Sets == {SetOf(q) : q \in Distinct(Elements, MaxLength)}

SetLikes == Sets \cup {SetLikeObject(q) : q \in Distinct({Num(1), Num(2)}, MaxLength)}

Maps ==
    UNION {{MapOf(q, values) : values \in [1..Len(q) -> MapValues]}
           : q \in Distinct(MapKeys, MaxLength)}

\* values that are neither arrays nor set-likes
Malformed == {Undefined, Null, Num(1), StrOf(<<"Thief">>), Obj(<<>>)}

InitCollections ==
    /\ \/ input \in (Arrays \cup Malformed) \X (Arrays \cup Malformed)
                        \X EqualityArguments \X {"undefined"}
       \/ input \in (SetLikes \cup Malformed \cup {Arr(<<>>)})
                        \X (SetLikes \cup Malformed \cup {Arr(<<>>)})
                        \X EqualityArguments \X {"undefined"}
       \/ input \in (Maps \cup Malformed \cup {SetOf(<<>>), SetOf(<<Num(1)>>)})
                        \X (Maps \cup Malformed \cup {SetOf(<<>>), SetOf(<<Num(1)>>)})
                        \X EqualityArguments \X EqualityArguments
    /\ answer = NoAnswer
    /\ CharacterIdle
    /\ TemplateIdle

EqualArrays == Answer("equalArrays", equalArraysBy(input[1], input[2], input[3]))

EqualSets == Answer("equalSets", equalSets(input[1], input[2], input[3]))

EqualMaps == Answer("equalMaps", equalMaps(input[1], input[2], input[3], input[4]))

EqualMapsOfPart001 ==
    Answer("equalMapsOfPart001", equalMapsOfPart001(input[1], input[2], input[3], input[4]))

NextCollections ==
    \/ EqualArrays
    \/ EqualSets
    \/ EqualMaps
    \/ EqualMapsOfPart001

SpecCollections == InitCollections /\ [][NextCollections]_vars

(***************************************************************************)
(* The claims about the equality of collections.                           *)
(***************************************************************************)
\* the members of a sequence
Range(q) == {q[i] : i \in 1..Len(q)}

\* input[1] and input[2] are arrays of the same distinct elements in another order
SameElementsOtherOrder ==
    /\ IsArray(input[1]) /\ IsArray(input[2])
    /\ Cardinality(Range(input[1].v)) = Len(input[1].v)
    /\ Cardinality(Range(input[2].v)) = Len(input[2].v)
    /\ Range(input[1].v) = Range(input[2].v)
    /\ input[1] # input[2]

\* The statement of C18 as the document has it: with the default equality
\* equalArrays(a, a.slice()) is true for every array a, whatever its elements,
\* and arrays of the same distinct elements in another order are not equal.
C18_EqualArraysOfEveryCopy ==
    (answer.fn = "equalArrays" /\ input[3] = "undefined" /\ IsArray(input[1]))
        => /\ input[2] = slice(input[1]) => answer.result = Return(Bool(TRUE))
           /\ SameElementsOtherOrder => answer.result = Return(Bool(FALSE))

\* C18: with the default equality equalArrays(a, a.slice()) is true for every
\* array a none of whose elements is NaN, and two arrays holding the same
\* distinct elements in a different order are not equal.
C18_EqualArraysCopyAndOrder ==
    (answer.fn = "equalArrays" /\ input[3] = "undefined" /\ IsArray(input[1]))
        => /\ (input[2] = slice(input[1]) /\ NaN \notin Range(input[1].v))
                 => answer.result = Return(Bool(TRUE))
           /\ SameElementsOtherOrder => answer.result = Return(Bool(FALSE))

\* equalArrays has refused [1, 2] against [2, 1] under the default equality
C18_Witness ==
    /\ answer.fn = "equalArrays"
    /\ input = <<Arr(<<Num(1), Num(2)>>), Arr(<<Num(2), Num(1)>>), "undefined", "undefined">>
    /\ answer.result = Return(Bool(FALSE))

\* input[1] and input[2] are set-likes of the same size and the same elements
SameSetLikes ==
    /\ isSetLike(input[1]).value.v /\ isSetLike(input[2]).value.v
    /\ Len(input[1].keys) = Len(input[2].keys)
    /\ Range(input[1].keys) = Range(input[2].keys)

\* C19: with the default equality equalSets(s, s) is true for every SetLike
\* s, whatever its elements, and two sets of matching size holding the same
\* elements in another order are equal.
C19_EqualSetsOfEverySet ==
    (answer.fn = "equalSets" /\ input[3] = "undefined" /\ SameSetLikes)
        => answer.result = Return(Bool(TRUE))

\* the call of the equality function named fn returns a truthy value
Holds(fn, compared, comparee) ==
    /\ Returned(equalityFn(fn, compared, comparee))
    /\ ToBoolean(equalityFn(fn, compared, comparee).value)

\* the keys of a and b are equal as sets under keyEq, and every key of a has a
\* corresponding key of b whose value satisfies valueEq with the value of a
DocumentedEqualMaps(a, b, keyEq, valueEq) ==
    /\ \A k \in 1..Len(a.keys) : \E i \in 1..Len(b.keys) : Holds(keyEq, b.keys[i], a.keys[k])
    /\ \A k \in 1..Len(b.keys) : \E i \in 1..Len(a.keys) : Holds(keyEq, b.keys[k], a.keys[i])
    /\ \A k \in 1..Len(a.keys) : \E i \in 1..Len(b.keys) :
          /\ Holds(keyEq, b.keys[i], a.keys[k])
          /\ Holds(valueEq, a.values[k], b.values[i])

\* C20: equalMaps(a, b, keyEq, valueEq) is true exactly when the keys of a and
\* b are equal as sets under keyEq and, for every key of a, the value of a and
\* the value of b at the corresponding key satisfy valueEq; the defaults
\* (sameValueZero for keys, strictEquality for values) need no argument.
C20_EqualMapsKeysThenValues ==
    (answer.fn \in {"equalMaps", "equalMapsOfPart001"}
        /\ input[1].t = "Map" /\ input[2].t = "Map")
        => answer.result =
              Return(Bool(DocumentedEqualMaps(input[1], input[2],
                                              defaultTo(input[3], "sameValueZero"),
                                              defaultTo(input[4], "strictEquality"))))

\* C21: the collection equalities never throw on malformed input: equalArrays
\* returns false when either argument is no array, equalSets when either is
\* not SetLike, and equalMaps when either is not map-like (null, undefined,
\* primitives, plain objects, and a Set handed to equalMaps).
C21_MalformedCollectionsAreUnequal ==
    /\ (answer.fn = "equalArrays" /\ ~(IsArray(input[1]) /\ IsArray(input[2])))
          => answer.result = Return(Bool(FALSE))
    /\ (answer.fn = "equalSets"
          /\ ~(isSetLike(input[1]).value.v /\ isSetLike(input[2]).value.v))
          => answer.result = Return(Bool(FALSE))
    /\ (answer.fn \in {"equalMaps", "equalMapsOfPart001"}
          /\ ~(input[1].t = "Map" /\ input[2].t = "Map"))
          => answer.result = Return(Bool(FALSE))

(***************************************************************************)
(* isFunction: equality.base.mjs, unnamed/part_001 and (above) setlike.mjs *)
(* each hold one.  The options are a record with minParams, maxParams,     *)
(* both or neither.                                                        *)
(***************************************************************************)
\* the largest number of declared parameters, and the largest bound on them
MaxParams == 2

\* isFunction of equality.base.mjs
isFunction(tested, testOptions) ==
    IF typeOf(tested) # "function" THEN Return(Bool(FALSE))
    ELSE IF "minParams" \in DOMAIN testOptions /\ tested.length <= testOptions["minParams"]
         THEN Return(Bool(FALSE))
    ELSE IF "maxParams" \in DOMAIN testOptions /\ tested.length >= testOptions["maxParams"]
         THEN Return(Bool(FALSE))
    ELSE Return(Bool(TRUE))

\* isFunction of unnamed/part_001
isFunctionOfPart001(tested, testOptions) ==
    IF typeOf(tested) # "function" THEN Return(Bool(FALSE))
    ELSE IF "minParams" \in DOMAIN testOptions /\ tested.length < testOptions["minParams"]
         THEN Return(Bool(FALSE))
    ELSE IF "maxParams" \in DOMAIN testOptions /\ tested.length > testOptions["maxParams"]
         THEN Return(Bool(FALSE))
    ELSE Return(Bool(TRUE))

FunctionTestOptions ==
    {lower @@ upper :
        lower \in {<<>>} \cup {("minParams" :> n) : n \in 0..MaxParams},
        upper \in {<<>>} \cup {("maxParams" :> n) : n \in 0..MaxParams}}

InitIsFunction ==
    /\ input \in ({Fn(n) : n \in 0..MaxParams} \cup {Undefined, Null, Num(1), Obj(<<>>)})
                    \X FunctionTestOptions
    /\ answer = NoAnswer
    /\ CharacterIdle
    /\ TemplateIdle

IsFunction == Answer("isFunction", isFunction(input[1], input[2]))

IsFunctionOfPart001 == Answer("isFunctionOfPart001", isFunctionOfPart001(input[1], input[2]))

IsFunctionOfSetlike ==
    Answer("isFunctionOfSetlike", Return(Bool(isFunctionOfSetlike(input[1], input[2]))))

NextIsFunction ==
    \/ IsFunction
    \/ IsFunctionOfPart001
    \/ IsFunctionOfSetlike

SpecIsFunction == InitIsFunction /\ [][NextIsFunction]_vars

\* C22: isFunction(value, {minParams, maxParams}) is true if and only if value
\* is callable and its declared parameter count n has minParams <= n <=
\* maxParams, both bounds inclusive and a bound left out ignored; every
\* isFunction of the repository returns this.
C22_IsFunctionInclusiveBounds ==
    answer.fn \in {"isFunction", "isFunctionOfPart001", "isFunctionOfSetlike"}
        => answer.result =
              Return(Bool(/\ input[1].t = "function"
                          /\ "minParams" \in DOMAIN input[2]
                                => input[2]["minParams"] <= input[1].length
                          /\ "maxParams" \in DOMAIN input[2]
                                => input[1].length <= input[2]["maxParams"]))

(***************************************************************************)
(* The set-like tiers of setlike.mjs.                                      *)
(***************************************************************************)
\* isSetLike(value) && [...].forEach(callback): the callback tests
\* (property in value) && isFunction(value.property), which cannot throw on
\* a set-like, and forEach returns undefined whatever its callback returns
isReadableSetLike(value) == andChain(<<isSetLike(value), Return(Undefined)>>)

\* isReadableSetLike(value) && [...].forEach(callback): the callback reads
\* opt, which nothing declares
isWritableSetLike(value) ==
    andChain(<<isReadableSetLike(value), Throw(ReferenceError("opt"))>>)

ReadableMembers == {"values", "Symbol.iterator", "forEach", "entries"}

\* an object that is no Set, with the members of a set-like and the given
\* further methods
SetLikeObjectWith(keys, methods) ==
    [t |-> "object",
     props |-> SetLikeObject(keys).props @@ [m \in methods |-> Fn(IF m \in {"add", "delete", "forEach"} THEN 1 ELSE 0)],
     keys |-> keys]

SetLikeInputs ==
    SetLikes \cup Maps \cup Malformed
        \cup {SetLikeObjectWith(<<Num(1)>>, methods) :
                 methods \in {ReadableMembers, ReadableMembers \ {"entries"},
                              ReadableMembers \cup {"clear", "add", "delete"},
                              ReadableMembers \cup {"clear", "add"}}}

InitSetLike ==
    /\ input \in {<<value>> : value \in SetLikeInputs}
    /\ answer = NoAnswer
    /\ CharacterIdle
    /\ TemplateIdle

IsSetLike == Answer("isSetLike", isSetLike(input[1]))

IsReadableSetLike == Answer("isReadableSetLike", isReadableSetLike(input[1]))

IsWritableSetLike == Answer("isWritableSetLike", isWritableSetLike(input[1]))

NextSetLike ==
    \/ IsSetLike
    \/ IsReadableSetLike
    \/ IsWritableSetLike

SpecSetLike == InitSetLike /\ [][NextSetLike]_vars

\* value exposes every one of the named members as a function
Exposes(value, members) ==
    \A m \in members :
        m \in DOMAIN propsOf(value) /\ propsOf(value)[m].t = "function"

\* C23: the set-like tiers are nested: isReadableSetLike(value) is true
\* exactly when value is set-like and exposes values, the default iteration,
\* forEach and entries as functions; isWritableSetLike(value) is true exactly
\* when value is moreover exposing clear, add and delete; a built-in Set
\* satisfies all three tiers.
C23_SetLikeTiers ==
    /\ answer.fn = "isReadableSetLike"
          => answer.result =
                Return(Bool(isSetLike(input[1]).value.v
                            /\ Exposes(input[1], ReadableMembers)))
    /\ answer.fn = "isWritableSetLike"
          => answer.result =
                Return(Bool(isSetLike(input[1]).value.v
                            /\ Exposes(input[1], ReadableMembers \cup {"clear", "add", "delete"})))
    /\ (answer.fn \in {"isSetLike", "isReadableSetLike", "isWritableSetLike"}
          /\ input[1].t = "Set")
          => answer.result = Return(Bool(TRUE))

(***************************************************************************)
(* implementsInterface of equality.mjs (unnamed/part_001 holds the same    *)
(* text).  A member tester is a function of one parameter, named by what   *)
(* it tests; the members of an interface definition are a record from      *)
(* member names to testers, an array of member names, or left out.         *)
(***************************************************************************)
MemberTester(test) == [t |-> "function", length |-> 1, test |-> test]

\* the call of a member tester
memberTest(tester, member) ==
    CASE tester.test = "number" -> Return(Bool(typeOf(member) = "number"))
      [] tester.test = "function" -> Return(Bool(typeOf(member) = "function"))

\* for (const property of members) { ... return false on a failing member }:
\* gives Return(FALSE) where the loop returns false, Return(TRUE) where it
\* runs to its end, and the exception where it throws.  A record is not
\* iterable; an array of names has no tester under a name.
membersLoop(value, members, name, isRequired) ==
    IF members.t # "array"
    THEN Throw(TypeError(<<name, "is not iterable">>))
    ELSE LET step(property) ==
                 IF property \notin DOMAIN propsOf(value)
                 THEN Return(Bool(~isRequired))
                 ELSE Throw(TypeError(<<name, "[property] is not a function">>))
         IN  every([i \in 1..Len(members.v) |-> step(members.v[i].v)])

implementsInterface(value, definition) ==
    IF instanceofObject(value)
    THEN LET required == IF "required" \in DOMAIN definition
                         THEN definition["required"] ELSE Obj(<<>>)
             optional == IF "optional" \in DOMAIN definition
                         THEN definition["optional"] ELSE Obj(<<>>)
         IN  andChain(<<membersLoop(value, required, "required", TRUE),
                        membersLoop(value, optional, "optional", FALSE)>>)
    ELSE Return(Bool(FALSE))

MemberNames == {"size", "has", "add"}

\* the members of an interface definition as the documented record
MemberRecords ==
    {Obj(<<>>), Obj("size" :> MemberTester("number")),
     Obj("has" :> MemberTester("function")),
     Obj(("size" :> MemberTester("number")) @@ ("has" :> MemberTester("function"))),
     Obj("add" :> MemberTester("function")),
     Obj("size" :> MemberTester("function"))}

\* the members of an interface definition as an array of names
MemberArrays == {Arr(<<>>), Arr(<<Str("size")>>), Arr(<<Str("add")>>)}

InterfaceDefinitions ==
    {required @@ optional :
        required \in {<<>>} \cup {("required" :> m) : m \in MemberRecords \cup MemberArrays},
        optional \in {<<>>} \cup {("optional" :> m) : m \in MemberRecords \cup MemberArrays}}

InitInterface ==
    /\ input \in {SetOf(<<>>), MapOf(<<>>, <<>>), SetLikeObject(<<>>), Obj(<<>>),
                  Undefined, Null, Num(1), StrOf(<<"Thief">>)}
                    \X InterfaceDefinitions
    /\ answer = NoAnswer
    /\ CharacterIdle
    /\ TemplateIdle

ImplementsInterface ==
    Answer("implementsInterface", implementsInterface(input[1], input[2]))

NextInterface == ImplementsInterface

SpecInterface == InitInterface /\ [][NextInterface]_vars

\* every member of the record exists in the value and passes its tester
\* (required), or passes its tester where it exists (optional)
MembersPass(value, members, isRequired) ==
    \A m \in DOMAIN members.props :
        IF m \in DOMAIN propsOf(value)
        THEN memberTest(members.props[m], propsOf(value)[m]) = Return(Bool(TRUE))
        ELSE ~isRequired

\* C24: implementsInterface(value, {required, optional}) with the members
\* given as records returns a boolean: false for a value that is no object,
\* and for an object true if and only if every required member exists and
\* passes its tester and every optional member that is present passes its
\* tester.
C24_ImplementsInterface ==
    (/\ answer.fn = "implementsInterface"
     /\ \A k \in DOMAIN input[2] : input[2][k] \in MemberRecords)
        => answer.result =
              Return(Bool(
                  /\ instanceofObject(input[1])
                  /\ "required" \in DOMAIN input[2]
                        => MembersPass(input[1], input[2]["required"], TRUE)
                  /\ "optional" \in DOMAIN input[2]
                        => MembersPass(input[1], input[2]["optional"], FALSE)))

(***************************************************************************)
(* The integer gatekeeper, converter and assertion of integer.mjs on the   *)
(* values of test/character.test.mjs and further ones.                     *)
(***************************************************************************)
MAX_SAFE_INTEGER == Pow2(1, 53, -1)

MIN_SAFE_INTEGER == Pow2(-1, 53, -1)

validIntegers ==
    {MIN_SAFE_INTEGER, Pow2(-1, 32, 0), Pow2(-1, 32, 1), Num(-256), Num(-255), Num(-1),
     StrOf(<<"-", "1">>), Num(0), StrOf(<<"0">>), Num(1), StrOf(<<"1">>), Num(255),
     Num(256), Pow2(1, 32, 0), Pow2(1, 32, -1), MAX_SAFE_INTEGER}

invalidIntegers ==
    {NaN, Infinity(-1), Infinity(1), Pow2(1, 53, 0), Pow2(-1, 53, 0), Null, Undefined,
     StrOf(<<"a">>)}

IntegerInputs ==
    validIntegers \cup invalidIntegers
        \cup {NegZero, Half, Pow2(1, 53, 2), Bool(TRUE), Obj(<<>>), Arr(<<>>), Fn(0),
              StrOf(<<>>), StrOf(<<" ">>), StrOf(<<" ", "1", " ">>), StrOf(<<"1", "0">>),
              StrOf(<<"42">>), StrOf(<<"+", "1">>), StrOf(<<"-", "0">>), StrOf(<<"-">>),
              StrOf(<<"1", "a">>), StrOf(<<"1", " ", "1">>), StrOf(<<"Infinity">>),
              StrOf(<<"-", "Infinity">>), StrOf(<<"-", "42", "0">>)}

InitInteger ==
    /\ input \in {<<value>> : value \in IntegerInputs}
    /\ answer = NoAnswer
    /\ CharacterIdle
    /\ TemplateIdle

IsInteger == Answer("isInteger", isInteger(input[1]))

ToInteger == Answer("toInteger", toInteger(input[1]))

AssertInteger == Answer("assertInteger", assertInteger(input[1]))

NextInteger ==
    \/ IsInteger
    \/ ToInteger
    \/ AssertInteger

SpecInteger == InitInteger /\ [][NextInteger]_vars

\* the numbers of the model that are safe integers, one by one
SafeNumbers ==
    {MIN_SAFE_INTEGER, Pow2(-1, 32, 0), Pow2(-1, 32, 1), Pow2(1, 32, 0), Pow2(1, 32, -1),
     MAX_SAFE_INTEGER, NegZero}
        \cup {Num(n) : n \in {-420, -256, -255, -1, 0, 1, 10, 42, 255, 256}}

\* the number each string of the model converts to, one by one
Converted ==
    [s \in {v \in IntegerInputs : v.t = "string"} |->
        CASE s.pieces \in {<<>>, <<" ">>, <<"0">>} -> Num(0)
          [] s.pieces \in {<<"1">>, <<" ", "1", " ">>, <<"+", "1">>} -> Num(1)
          [] s.pieces = <<"-", "1">> -> Num(-1)
          [] s.pieces = <<"1", "0">> -> Num(10)
          [] s.pieces = <<"42">> -> Num(42)
          [] s.pieces = <<"-", "42", "0">> -> Num(-420)
          [] s.pieces = <<"-", "0">> -> NegZero
          [] s.pieces = <<"Infinity">> -> Infinity(1)
          [] s.pieces = <<"-", "Infinity">> -> Infinity(-1)
          [] OTHER -> NaN]

\* C25: isInteger(v) never throws and is true exactly when v is a number, or
\* a string whose numeric conversion is a number, that is a safe integer; it
\* is true for every valid integer of the tests and false for NaN, the
\* infinities, 2^53, -(2^53), null, undefined and "a".
C25_IsIntegerSafeIntegers ==
    answer.fn = "isInteger"
        => /\ answer.result =
                 Return(Bool(\/ input[1] \in SafeNumbers
                             \/ /\ input[1].t = "string"
                                /\ Converted[input[1]] \in SafeNumbers))
           /\ input[1] \in validIntegers => answer.result = Return(Bool(TRUE))
           /\ input[1] \in invalidIntegers => answer.result = Return(Bool(FALSE))

\* isInteger has rejected 2^53 and has accepted the largest safe integer
C25_Witness ==
    /\ answer.fn = "isInteger"
    /\ \/ input[1] = Pow2(1, 53, 0) /\ answer.result = Return(Bool(FALSE))
       \/ input[1] = MAX_SAFE_INTEGER /\ answer.result = Return(Bool(TRUE))

\* C26: toInteger(v) returns the number +v, itself an integer, when
\* isInteger(v), and throws TypeError otherwise; assertInteger(v) returns
\* when isInteger(v) and throws AssertionError otherwise, as for null.
C26_ToIntegerAndAssertInteger ==
    LET isValid == \/ input[1] \in SafeNumbers
                   \/ input[1].t = "string" /\ Converted[input[1]] \in SafeNumbers
    IN  /\ answer.fn = "toInteger"
            => IF isValid
               THEN /\ answer.result =
                          Return(IF input[1].t = "string" THEN Converted[input[1]]
                                                          ELSE input[1])
                    /\ answer.result.value \in SafeNumbers
               ELSE /\ answer.result.status = "throw"
                    /\ answer.result.error.class = "TypeError"
        /\ answer.fn = "assertInteger"
            => IF isValid
               THEN answer.result.status = "return"
               ELSE /\ answer.result.status = "throw"
                    /\ answer.result.error.class = "AssertionError"
        /\ (answer.fn = "assertInteger" /\ input[1] = Null)
            => answer.result.status = "throw"

\* toInteger has converted the string "-1" to the number -1
C26_Witness ==
    /\ answer.fn = "toInteger"
    /\ input = <<StrOf(<<"-", "1">>)>>
    /\ answer.result = Return(Num(-1))

(***************************************************************************)
(* The safe JSON codec of unnamed/part_000: safeJsonReplacer is what       *)
(* createJsonReplacer builds from the filter and the replacer of lines     *)
(* 128-158, safeJsonRevier the reviver.  A JSON text is a sequence of      *)
(* pieces; the values that are serialized are primitives, and arrays and   *)
(* objects of primitives, an object holding one member at most (so that no *)
(* order of members is modelled).                                          *)
(***************************************************************************)
BigInt(n) == [t |-> "bigint", v |-> n]

Symbol == [t |-> "symbol"]

SyntaxError(msg) == [class |-> "SyntaxError", message |-> msg]

\* the decimal digits of an integer, the sign a piece of its own
integerText(n) == IF n < 0 THEN <<"-", ToString(-n)>> ELSE <<ToString(n)>>

\* the default keyFilter of createJsonReplacer without fields
keyFilter(key) == typeOf(key) \in {"string", "number"}

\* the filter option of safeJsonReplacer
filter(value, key) ==
    \/ instanceofObject(value)
    \/ typeOf(value) \in {"object", "string", "bigint", "boolean", "number"}
    \/ /\ typeOf(key) \in {"string", "number"}
       /\ isSafeInteger(toNumber(key))
       /\ typeOf(value) \in {"undefined", "symbol", "function"}

\* the replacer option of safeJsonReplacer, declared (value, key = "")
replacer(value, key) ==
    IF typeOf(value) = "bigint" THEN StrOf(integerText(value.v) \o <<"n">>)
    ELSE IF typeOf(value) = "number"
         THEN IF value = NaN THEN StrOf(<<"[NaN]">>)
              ELSE IF value = Infinity(1) THEN StrOf(<<"[+Inf]">>)
              ELSE IF value = Infinity(-1) THEN StrOf(<<"[-Inf]">>)
              ELSE value
    ELSE IF typeOf(value) \in {"undefined", "symbol", "function"} THEN Null
    ELSE value

\* the function createJsonReplacer returns for these options: it calls
\* replacer(key, value), and where the filters reject it calls ignore, which
\* the options leave undefined
safeJsonReplacer(key, value) ==
    IF keyFilter(key) /\ filter(value, key)
    THEN Return(replacer(key, value))
    ELSE Throw(TypeError(<<"ignore is not a function">>))

\* /(?<value>^[+-]\d+)n$/ on the pieces of a string
sentinelRegExTest(pieces) ==
    /\ Len(pieces) >= 3
    /\ pieces[1] \in {"+", "-"}
    /\ pieces[Len(pieces)] = "n"
    /\ \A i \in 2..(Len(pieces) - 1) : pieces[i] \in DOMAIN DigitRuns

\* BigInt(text) of a sign and decimal digits
bigIntOf(pieces) ==
    BigInt((IF pieces[1] = "-" THEN -1 ELSE 1) * decimal(Tail(pieces)))

safeJsonRevier(key, value) ==
    IF typeOf(value) = "string"
    THEN IF sentinelRegExTest(value.pieces)
         THEN Return(bigIntOf(SubSeq(value.pieces, 1, Len(value.pieces) - 1)))
         ELSE Return(value)
    ELSE Return(value)

JsonText(pieces) == [t |-> "text", pieces |-> pieces]

\* the texts of the members joined by commas; a member that is left out is
\* null in an array
RECURSIVE joinTexts(_)
joinTexts(texts) ==
    IF texts = <<>> THEN <<>>
    ELSE LET piecesOf(r) == IF r.value = Undefined THEN <<"null">> ELSE r.value.pieces
         IN  IF Len(texts) = 1 THEN piecesOf(texts[1])
             ELSE piecesOf(texts[1]) \o <<",">> \o joinTexts(Tail(texts))

\* SerializeJSONProperty of JSON.stringify(value, safeJsonReplacer): the
\* replacer is called with the key and the value held under it, and its
\* result is serialized; Return(Undefined) where nothing is written
RECURSIVE serializeJSONProperty(_, _)
serializeJSONProperty(key, held) ==
    LET replaced == safeJsonReplacer(key, held)
    IN  IF ~Returned(replaced) THEN replaced
        ELSE LET value == replaced.value
             IN  CASE value = Null -> Return(JsonText(<<"null">>))
                   [] value.t = "boolean" ->
                         Return(JsonText(IF value.v THEN <<"true">> ELSE <<"false">>))
                   [] value.t = "string" ->
                         Return(JsonText(<<"\"">> \o value.pieces \o <<"\"">>))
                   [] value.t = "number" ->
                         Return(JsonText(IF "v" \in DOMAIN value THEN integerText(value.v)
                                         ELSE IF value = NegZero THEN <<"0">>
                                         ELSE <<"null">>))
                   [] value.t = "bigint" ->
                         Throw(TypeError(<<"Do not know how to serialize a BigInt">>))
                   [] value.t = "array" ->
                         LET members == [i \in 1..Len(value.v) |->
                                            serializeJSONProperty(StrOf(<<ToString(i - 1)>>),
                                                                  value.v[i])]
                             thrown == {i \in 1..Len(members) : ~Returned(members[i])}
                         IN  IF thrown # {} THEN members[Min(thrown)]
                             ELSE Return(JsonText(<<"[">> \o joinTexts(members) \o <<"]">>))
                   [] value.t = "object" ->
                         IF DOMAIN value.props = {} THEN Return(JsonText(<<"{", "}">>))
                         ELSE LET name == CHOOSE n \in DOMAIN value.props : TRUE
                                  member == serializeJSONProperty(StrOf(<<name>>),
                                                                  value.props[name])
                              IN  IF ~Returned(member) THEN member
                                  ELSE IF member.value = Undefined
                                       THEN Return(JsonText(<<"{", "}">>))
                                  ELSE Return(JsonText(<<"{", "\"", name, "\"", ":">>
                                                       \o member.value.pieces \o <<"}">>))
                   [] OTHER -> Return(Undefined)

\* JSON.stringify(value, safeJsonReplacer)
stringify(value) == serializeJSONProperty(StrOf(<<>>), value)

\* the pieces between the separators of a text
RECURSIVE split(_, _)
split(pieces, separator) ==
    LET at == {i \in 1..Len(pieces) : pieces[i] = separator}
    IN  IF at = {} THEN <<pieces>>
        ELSE <<SubSeq(pieces, 1, Min(at) - 1)>>
                \o split(SubSeq(pieces, Min(at) + 1, Len(pieces)), separator)

\* the value a text of a primitive denotes
parsePrimitive(pieces) ==
    IF pieces = <<"null">> THEN Null
    ELSE IF pieces = <<"true">> THEN Bool(TRUE)
    ELSE IF pieces = <<"false">> THEN Bool(FALSE)
    ELSE IF pieces[1] = "\"" THEN StrOf(SubSeq(pieces, 2, Len(pieces) - 1))
    ELSE stringToNumber(pieces)

\* the value the reviver leaves under a key
revive(key, value) == safeJsonRevier(key, value).value

\* JSON.parse(text, safeJsonRevier): the members are revived before the
\* value that holds them; JSON.parse(undefined) is a SyntaxError
parse(text) ==
    IF text = Undefined THEN Throw(SyntaxError(<<"undefined", "is not valid JSON">>))
    ELSE LET pieces == text.pieces
             inner == SubSeq(pieces, 2, Len(pieces) - 1)
             root ==
                 IF pieces[1] = "["
                 THEN IF inner = <<>> THEN Arr(<<>>)
                      ELSE LET members == split(inner, ",")
                           IN  Arr([i \in 1..Len(members) |->
                                       revive(StrOf(<<ToString(i - 1)>>),
                                              parsePrimitive(members[i]))])
                 ELSE IF pieces[1] = "{"
                 THEN IF inner = <<>> THEN Obj(<<>>)
                      ELSE Obj(inner[2] :> revive(StrOf(<<inner[2]>>),
                                                  parsePrimitive(SubSeq(inner, 5, Len(inner)))))
                 ELSE parsePrimitive(pieces)
         IN  safeJsonRevier(StrOf(<<>>), root)

\* JSON.parse(JSON.stringify(value, safeJsonReplacer), safeJsonRevier)
roundTrip(value) ==
    LET text == stringify(value)
    IN  IF Returned(text) THEN parse(text.value) ELSE text

BigInts == {BigInt(n) : n \in {-42, -1, 0, 1, 42}}

\* members that JSON holds as they are
JsonNatives ==
    {Null, Bool(TRUE), Num(0), Num(1), Num(-42), StrOf(<<>>), StrOf(<<"Thief">>),
     StrOf(<<"1", "n">>), StrOf(<<"[Skill]">>)}

\* members that JSON does not hold
Unserializable == {Undefined, Symbol, Fn(0), NaN, Infinity(1), Infinity(-1)}

JsonMembers == BigInts \cup JsonNatives \cup Unserializable

\* texts as the reviver meets them
SentinelTexts ==
    {StrOf(<<"-", "1", "n">>), StrOf(<<"+", "1", "n">>), StrOf(<<"-", "4", "2", "n">>),
     StrOf(<<"-", "42", "n">>), StrOf(<<"0", "n">>), StrOf(<<"42", "n">>),
     StrOf(<<"-", "n">>), StrOf(<<"-", "1">>), StrOf(<<"[NaN]">>)}

JsonValues ==
    JsonMembers \cup SentinelTexts \cup {Arr(<<>>), Obj(<<>>)}
        \cup {Arr(<<m>>) : m \in JsonMembers}
        \cup {Arr(<<m, Num(1)>>) : m \in BigInts \cup {NaN, Undefined}}
        \cup {Obj("a" :> m) : m \in JsonMembers}

JsonKeys == {StrOf(<<>>), StrOf(<<"0">>), StrOf(<<"a">>), Num(0), Undefined}

InitJson ==
    /\ input \in JsonKeys \X JsonValues
    /\ answer = NoAnswer
    /\ CharacterIdle
    /\ TemplateIdle

SafeJsonReplacer == Answer("safeJsonReplacer", safeJsonReplacer(input[1], input[2]))

SafeJsonRevier == Answer("safeJsonRevier", safeJsonRevier(input[1], input[2]))

RoundTrip == Answer("roundTrip", roundTrip(input[2]))

NextJson ==
    \/ SafeJsonReplacer
    \/ SafeJsonRevier
    \/ RoundTrip

SpecJson == InitJson /\ [][NextJson]_vars

\* C27: safeJsonReplacer called as a JSON replacer (key, value) turns a
\* BigInt into its decimal digits followed by n, NaN into "[NaN]", +Infinity
\* into "[+Inf]", -Infinity into "[-Inf]", undefined, a symbol and a function
\* in a numeric array slot into null, and leaves every other JSON-native
\* value unchanged.
C27_SafeJsonReplacerRules ==
    (answer.fn = "safeJsonReplacer" /\ input[1].t = "string")
        => LET value == input[2]
           IN  /\ value \in BigInts
                     => answer.result = Return(StrOf(integerText(value.v) \o <<"n">>))
               /\ value = NaN => answer.result = Return(StrOf(<<"[NaN]">>))
               /\ value = Infinity(1) => answer.result = Return(StrOf(<<"[+Inf]">>))
               /\ value = Infinity(-1) => answer.result = Return(StrOf(<<"[-Inf]">>))
               /\ (value \in {Undefined, Symbol, Fn(0)} /\ input[1] = StrOf(<<"0">>))
                     => answer.result = Return(Null)
               /\ (value \in JsonNatives \cup SentinelTexts
                     \/ value.t \in {"array", "object"})
                     => answer.result = Return(value)

\* C28: serializing with safeJsonReplacer and parsing with safeJsonRevier
\* gives back an array or an object whose members are BigInts (positive,
\* zero or negative) and NaN; a string that does not match the sentinel
\* pattern of a BigInt passes through the reviver unchanged.
C28_SafeJsonRoundTrip ==
    /\ (/\ answer.fn = "roundTrip"
        /\ input[2].t = "array"
        /\ \E i \in 1..Len(input[2].v) : input[2].v[i] \in BigInts \cup {NaN}
        /\ \A i \in 1..Len(input[2].v) : input[2].v[i] \in BigInts \cup {NaN, Num(1)})
          => answer.result = Return(input[2])
    /\ (/\ answer.fn = "roundTrip"
        /\ input[2].t = "object"
        /\ DOMAIN input[2].props # {}
        /\ \A n \in DOMAIN input[2].props : input[2].props[n] \in BigInts \cup {NaN})
          => answer.result = Return(input[2])
    /\ (/\ answer.fn = "safeJsonRevier"
        /\ input[2].t = "string"
        /\ ~sentinelRegExTest(input[2].pieces))
          => answer.result = Return(input[2])

\* C29: the duplicate scan of a sub-group (checkSubGroup without a new
\* member) produces an error for the element at index i if and only if an
\* element at an index j < i has an equal identity; the message of the error
\* names the sub-group and the indices j and i; an element without an earlier
\* collision, the one at index 0 among them, produces no error, and the scan
\* ends with nothing but such an error or its report.
C29_DuplicateScanPerElement ==
    last.op = "checkSubGroup" =>
        LET a == SubGroupArgs(LastSubGroup)
            hits == Colliding(a)
            errors ==
                IF Returned(last.result)
                THEN UNION {{last.result.value[n][k] : k \in 1..Len(last.result.value[n])} :
                               n \in DOMAIN last.result.value}
                ELSE IF Threw(last.result, "AssertionError") THEN {last.result.error}
                ELSE {}
            errorsOf(i) == {e \in errors : e.message[6] = i - 1}
            collides(j, i) ==
                equalityFnCall(a.identityEqualityFn,
                               identityFnCall(a.identityFn, a.members[j]),
                               identityFnCall(a.identityFn, a.members[i]))
        IN  /\ Returned(last.result) \/ Threw(last.result, "AssertionError")
            /\ \A i \in 1..Len(a.members) :
                  \A e \in errorsOf(i) :
                      /\ i \in hits
                      /\ \E j \in 1..(i - 1) :
                            /\ collides(j, i)
                            /\ e.message = <<"Duplicate", LastSubGroup, "at", j - 1, "and", i - 1>>
            /\ ~last.flag => \A i \in hits : errorsOf(i) # {}
            /\ (last.flag /\ hits # {}) => errorsOf(Min(hits)) # {}

\* C30: equalSets(a, b, eqFn) is a containment check in both directions: on
\* set-likes, built-in Sets or not, and for every eqFn (asymmetric and
\* non-reflexive ones too) that answers on their keys, it is true exactly
\* when every key of a has a counterpart in b that eqFn accepts and every key
\* of b has one in a; sizes that differ reject at once only when both are
\* built-in Sets.
C30_EqualSetsBidirectional ==
    LET a == input[1]
        b == input[2]
        eqFn == defaultTo(input[3], "strictEquality")
    IN  (/\ answer.fn = "equalSets"
         /\ isSetLike(a).value.v /\ isSetLike(b).value.v
         /\ \A k \in 1..Len(a.keys) : \A i \in 1..Len(b.keys) :
               Returned(equalityFn(eqFn, b.keys[i], a.keys[k])))
            => answer.result =
                  Return(Bool(
                      /\ ~(a.t = "Set" /\ b.t = "Set" /\ Len(a.keys) # Len(b.keys))
                      /\ \A k \in 1..Len(a.keys) : \E i \in 1..Len(b.keys) :
                            Holds(eqFn, b.keys[i], a.keys[k])
                      /\ \A i \in 1..Len(b.keys) : \E k \in 1..Len(a.keys) :
                            Holds(eqFn, b.keys[i], a.keys[k])))

=============================================================================
